---- MODULE Spec2Model ----
(***************************************************************************)
(* Connection-token lifecycle of the Gaugid TypeScript SDK:                *)
(* TokenStorage (a JSON file holding a map connectionId -> record),        *)
(* ConnectionManager on top of it, and OAuthFlow (authorization URL,       *)
(* redirect parsing, code exchange and token revocation).                  *)
(*                                                                         *)
(* JavaScript values are represented as follows.  An object whose fields   *)
(* are read by the code (a ConnectionTokenInfo, a stored record) is a TLA+ *)
(* function from the names of its DEFINED fields to their values: a field  *)
(* that is undefined and a field that is missing read the same in          *)
(* JavaScript and are the same here.  The `tokens` object of the storage   *)
(* is [t, own, proto]: its type, its own enumerable properties in          *)
(* insertion order (a sequence of [k, v]), and its prototype.  A value     *)
(* returned by (or thrown from) a handler is a tagged record, so values of *)
(* different JavaScript types are always comparable.                       *)
(***************************************************************************)
EXTENDS Integers, Sequences, FiniteSets, TLC

VARIABLES
  file,   \* the token file at storagePath: Missing, Bad, Partial or JsonText
  now,    \* the clock, in milliseconds since the epoch
  last,   \* the call that completed last, with what it returned or threw
  kv,     \* per connectionId, the write the caller made last
  pc,     \* per overlapping call, where it stands: "idle", "open", "write"
  arg,    \* per overlapping call, the operation and its arguments
  snap,   \* per overlapping call, its local tokens object
  whole,  \* the file as the last completed writeFile left it
  torn,   \* per overlapping call, whether its loadTokens read a map that
          \* is neither the one written last nor one being written
  fmode,  \* the permission bits of the token file, NoMode while it is missing
  dmode,  \* the permission bits of its directory, NoMode while it is missing
  flow,   \* the OAuthFlow call that ran last or is running, with its outcome
  drawn,  \* the random state values generated so far, oldest first
  env,    \* process.env.GAUGID_NAMESPACE, Unset when it is not set
  client, \* the GaugidClient constructed last, NoClient before
  ret,    \* the GaugidClient call that ran last, with what it returned or threw
  globalLogLevel, \* the logger module's level
  loggers,        \* the logger module's map from a name to its logger
  heap,   \* the ConsoleLogger objects made so far, oldest first
  held    \* the ConsoleLogger objects that getLogger has returned

storeVars == <<file, now>>
ghostVars == <<last, kv>>
concVars == <<pc, arg, snap, whole, torn>>
permVars == <<fmode, dmode>>
flowVars == <<flow, drawn>>
clientVars == <<env, client, ret>>
logVars == <<globalLogLevel, loggers, heap, held>>
vars == <<file, now, last, kv, pc, arg, snap, whole, torn, fmode, dmode, flow, drawn,
          env, client, ret, globalLogLevel, loggers, heap, held>>

---------------------------------------------------------------------------
(* Bounds of the model *)

\* the clock takes the values 0, TickMs, ..., MaxTicks * TickMs (milliseconds)
MaxTicks == 2
TickMs == 500

(* Program constants *)

\* new Date(tokenInfo.expiresAt * 1000)
MsPerSecond == 1000

---------------------------------------------------------------------------
(* Inputs *)

\* "__proto__" is a connectionId like any other string for the caller; on the
\* plain object the storage uses as its map it names the prototype accessor.
ProtoKey == "__proto__"
Ids == {"svc1", "svc2", ProtoKey}

InfoFields == {"token", "expiresAt", "scopes", "connectionId", "userDid", "profiles"}

\* ConnectionTokenInfo values: a full one, one with only the token (scopes
\* omitted, no expiry) and one with an empty scope list.
Infos ==
  { [token |-> "t1", expiresAt |-> 1, scopes |-> <<"a2p:preferences">>,
     connectionId |-> "c1", userDid |-> "did:a2p:user:u1", profiles |-> <<"p1">>],
    [token |-> "t2"],
    [token |-> "t3", expiresAt |-> 2, scopes |-> <<>>] }

EmptyRec == [f \in {} |-> 0]

---------------------------------------------------------------------------
(* Values returned or thrown by the handlers *)

VoidV == [t |-> "void"]
NullV == [t |-> "null"]
UndefinedV == [t |-> "undefined"]
StrV(s) == [t |-> "string", s |-> s]
BoolV(b) == [t |-> "boolean", b |-> b]
RecV(r) == [t |-> "record", r |-> r]
ListV(l) == [t |-> "list", l |-> l]
ThrowV(e) == [t |-> "throw", e |-> e]

IsThrow(v) == v.t = "throw"

---------------------------------------------------------------------------
(* The token file *)

\* kind: "missing" (existsSync is false), "bad" (readFile or JSON.parse
\* throws), "partial" (opened for writing and truncated, the text not yet
\* written: JSON.parse throws), "json" (the text parses to a value of type t;
\* entries are the members of an object in the order of the text).
Missing == [kind |-> "missing", t |-> "none", entries |-> <<>>]
Bad == [kind |-> "bad", t |-> "none", entries |-> <<>>]
Partial == [kind |-> "partial", t |-> "none", entries |-> <<>>]
JsonText(t, entries) == [kind |-> "json", t |-> t, entries |-> entries]

\* Object.prototype, as far as the fields the code reads go: none is defined.
ObjectPrototype == EmptyRec

EmptyObject == [t |-> "object", own |-> <<>>, proto |-> ObjectPrototype]

\* JSON.parse: an object or array gets the built-in prototype; null is null.
JSONparse(f) == [t |-> f.t, own |-> f.entries, proto |-> ObjectPrototype]

\* JSON.stringify(tokens, null, 2): the own enumerable members of an object
\* in insertion order; an array serialises its indexed elements only (it has
\* none here), whatever named properties were set on it.
JSONstringify(o) ==
  IF o.t = "array" THEN JsonText("array", <<>>) ELSE JsonText("object", o.own)

loadTokens(f) ==
  IF f.kind = "missing" THEN EmptyObject
  ELSE IF f.kind = "json" THEN JSONparse(f)
  ELSE EmptyObject

saveTokens(f, o) == JSONstringify(o)

---------------------------------------------------------------------------
(* Property access on the tokens object *)

OwnKeys(o) == [i \in 1..Len(o.own) |-> o.own[i].k]

HasOwn(o, k) == \E i \in 1..Len(o.own) : o.own[i].k = k

OwnIndex(o, k) == CHOOSE i \in 1..Len(o.own) : o.own[i].k = k

\* tokens[k] is truthy: an own member, or the prototype reached through the
\* inherited accessor.
HasProp(o, k) == HasOwn(o, k) \/ k = ProtoKey

\* tokens[k], for HasProp(o, k)
GetProp(o, k) == IF HasOwn(o, k) THEN o.own[OwnIndex(o, k)].v ELSE o.proto

\* tokens[k] = v: "__proto__" without an own member of that name runs the
\* inherited setter, which replaces the prototype and adds no own property;
\* any other key is replaced in place or appended.
SetProp(o, k, v) ==
  IF HasOwn(o, k)
    THEN [o EXCEPT !.own = [o.own EXCEPT ![OwnIndex(o, k)] = [k |-> k, v |-> v]]]
  ELSE IF k = ProtoKey THEN [o EXCEPT !.proto = v]
  ELSE [o EXCEPT !.own = Append(o.own, [k |-> k, v |-> v])]

\* a removal by position that mishandles "not found" (an index of -1 removes the
\* last member)
DeleteProp_spliceLast(o, k) ==
  IF HasOwn(o, k)
    THEN [o EXCEPT !.own = SubSeq(o.own, 1, OwnIndex(o, k) - 1)
                             \o SubSeq(o.own, OwnIndex(o, k) + 1, Len(o.own))]
    ELSE [o EXCEPT !.own = SubSeq(o.own, 1, Len(o.own) - 1)]

\* delete tokens[k]
DeleteProp(o, k) ==
  IF HasOwn(o, k)
    THEN [o EXCEPT !.own = SubSeq(o.own, 1, OwnIndex(o, k) - 1)
                             \o SubSeq(o.own, OwnIndex(o, k) + 1, Len(o.own))]
    ELSE o

---------------------------------------------------------------------------
(* TokenStorage *)

toISOString(ms) == [iso |-> ms]

\* the record saveToken builds: the six fields of tokenInfo and savedAt
StoredRecord(info, t) ==
  [f \in (DOMAIN info \cap InfoFields) \cup {"savedAt"} |->
     IF f = "savedAt" THEN toISOString(t) ELSE info[f]]

\* every record of the file stamped again with the time of the save
saveToken_restampAll(f, connectionId, tokenInfo, t) ==
  LET tokens == loadTokens(f)
      set == SetProp(tokens, connectionId, StoredRecord(tokenInfo, t))
  IN
  IF tokens.t = "null" THEN [file |-> f, val |-> ThrowV("TypeError")]
  ELSE [file |-> saveTokens(f, [set EXCEPT !.own =
                   [i \in 1..Len(set.own) |->
                      [k |-> set.own[i].k,
                       v |-> [set.own[i].v EXCEPT !.savedAt = toISOString(t)]]]]),
        val |-> VoidV]

\* [file, val]: the file after the call and what the call returned or threw
saveToken(f, connectionId, tokenInfo, t) ==
  LET tokens == loadTokens(f) IN
  IF tokens.t = "null" THEN [file |-> f, val |-> ThrowV("TypeError")]
  ELSE [file |-> saveTokens(f, SetProp(tokens, connectionId, StoredRecord(tokenInfo, t))),
        val |-> VoidV]

\* the record getToken builds from tokenData
TokenInfoOf(tokenData) ==
  [f \in (DOMAIN tokenData \cap InfoFields) \cup {"scopes"} |->
     IF f \in DOMAIN tokenData THEN tokenData[f] ELSE <<>>]

getToken(f, connectionId) ==
  LET tokens == loadTokens(f) IN
  IF tokens.t = "null" THEN ThrowV("TypeError")
  ELSE IF ~HasProp(tokens, connectionId) THEN NullV
  ELSE RecV(TokenInfoOf(GetProp(tokens, connectionId)))

deleteToken(f, connectionId) ==
  LET tokens == loadTokens(f) IN
  IF tokens.t = "null" THEN [file |-> f, val |-> ThrowV("TypeError")]
  ELSE [file |-> saveTokens(f, DeleteProp(tokens, connectionId)), val |-> VoidV]

\* the ids whose record has an expiresAt that has passed left out
listConnections_hideExpired(f) ==
  LET tokens == loadTokens(f)
      Live(k) == ~("expiresAt" \in DOMAIN GetProp(tokens, k)
                   /\ now >= GetProp(tokens, k).expiresAt * MsPerSecond)
  IN
  IF tokens.t = "null" THEN ThrowV("TypeError")
  ELSE ListV(SelectSeq(OwnKeys(tokens), Live))

listConnections(f) ==
  LET tokens == loadTokens(f) IN
  IF tokens.t = "null" THEN ThrowV("TypeError") ELSE ListV(OwnKeys(tokens))

\* expiry tested with > in place of >=
isTokenExpired_strictlyAfter(f, t, connectionId) ==
  LET tokenInfo == getToken(f, connectionId) IN
  IF IsThrow(tokenInfo) THEN tokenInfo
  ELSE IF tokenInfo = NullV THEN BoolV(TRUE)
  ELSE IF "expiresAt" \notin DOMAIN tokenInfo.r \/ tokenInfo.r.expiresAt = 0
    THEN BoolV(TRUE)
  ELSE BoolV(t > tokenInfo.r.expiresAt * MsPerSecond)

isTokenExpired(f, t, connectionId) ==
  LET tokenInfo == getToken(f, connectionId) IN
  IF IsThrow(tokenInfo) THEN tokenInfo
  ELSE IF tokenInfo = NullV THEN BoolV(TRUE)
  ELSE IF "expiresAt" \notin DOMAIN tokenInfo.r \/ tokenInfo.r.expiresAt = 0
    THEN BoolV(TRUE)
  ELSE BoolV(t >= tokenInfo.r.expiresAt * MsPerSecond)

---------------------------------------------------------------------------
(* ConnectionManager *)

\* the expiry check left out
getConnectionToken_noExpiryCheck(f, t, connectionId) ==
  LET tokenInfo == getToken(f, connectionId) IN
  IF IsThrow(tokenInfo) THEN tokenInfo
  ELSE IF tokenInfo = NullV THEN NullV
  ELSE IF "token" \in DOMAIN tokenInfo.r THEN StrV(tokenInfo.r.token)
  ELSE UndefinedV

getConnectionToken(f, t, connectionId) ==
  LET tokenInfo == getToken(f, connectionId) IN
  IF IsThrow(tokenInfo) THEN tokenInfo
  ELSE IF tokenInfo = NullV THEN NullV
  ELSE LET expired == isTokenExpired(f, t, connectionId) IN
       IF IsThrow(expired) THEN expired
       ELSE IF expired.b THEN NullV
       ELSE IF "token" \in DOMAIN tokenInfo.r THEN StrV(tokenInfo.r.token)
       ELSE UndefinedV

saveConnection(f, connectionId, tokenInfo, t) ==
  saveToken(f, connectionId, tokenInfo, t)

deleteConnection(f, connectionId) == deleteToken(f, connectionId)

ConnectionManager_listConnections(f) == listConnections(f)

\* null for a record that isTokenExpired reports as expired
getConnectionInfo_expiryFiltered(f, connectionId) ==
  IF isTokenExpired(f, now, connectionId) = BoolV(TRUE) THEN NullV
  ELSE getToken(f, connectionId)

getConnectionInfo(f, connectionId) == getToken(f, connectionId)

---------------------------------------------------------------------------
(* The sequential specification: one caller, each call runs to completion  *)
(* before the next.  last is the call that completed last and its result;  *)
(* kv is, per connectionId, what the caller did last: never written,       *)
(* deleted, or saved with some ConnectionTokenInfo.                        *)

Never == [s |-> "never"]
Deleted == [s |-> "deleted"]
Saved(info) == [s |-> "saved", info |-> info]

NoPre == [s |-> "none"]

\* pre: for a write, what kv held for the id when the call was made
Call(op, id, info, pre, val) ==
  [op |-> op, id |-> id, info |-> info, pre |-> pre, val |-> val]

Procs == {"p1", "p2"}

NoArg == [op |-> "none", id |-> "", info |-> EmptyRec]

\* Permission bits, written as in the source without the 0o prefix.
NoMode == "none"
FileMode == "0600"
DirMode == "0700"

\* writeFile(path, text, {mode}): the mode is given to open(2), which uses it
\* only when it creates the file; a file that exists keeps its bits
writeFileMode(f, m) == IF f.kind = "missing" THEN FileMode ELSE m

\* if (!existsSync(dir)) mkdir(dir, {mode, recursive}): a directory that
\* exists is left as it is
mkdirMode(d) == IF d = NoMode THEN DirMode ELSE d

\* no OAuthFlow call has been made
NoFlow == [op |-> "none"]
FlowIdle ==
  /\ flow = NoFlow
  /\ drawn = <<>>

\* process.env.GAUGID_NAMESPACE is not set
Unset == ""

\* no GaugidClient has been constructed and no call on one has been made
NoClient == [made |-> FALSE]
NoRet == [op |-> "none"]
NoClientYet ==
  /\ client = NoClient
  /\ ret = NoRet

\* the logger module as loaded: level WARN, no logger made yet.  loggers maps
\* a name to the place of its object in heap, held is the set of places that
\* getLogger has handed out
DefaultLogLevel == "WARN"
LoggingFresh ==
  /\ globalLogLevel = DefaultLogLevel
  /\ loggers = <<>>
  /\ heap = <<>>
  /\ held = {}

\* no call is in progress
Quiet ==
  /\ pc = [p \in Procs |-> "idle"]
  /\ arg = [p \in Procs |-> NoArg]
  /\ snap = [p \in Procs |-> EmptyObject]
  /\ torn = [p \in Procs |-> FALSE]

Init ==
  /\ file = Missing
  /\ now = 0
  /\ last = Call("none", "", EmptyRec, NoPre, VoidV)
  /\ kv = [id \in Ids |-> Never]
  /\ whole = file
  /\ Quiet
  /\ fmode = NoMode
  /\ dmode = NoMode
  /\ FlowIdle
  /\ NoClientYet
  /\ env = Unset
  /\ LoggingFresh

SaveToken(id, info) ==
  LET r == saveToken(file, id, info, now) IN
  /\ file' = r.file
  /\ last' = Call("saveToken", id, info, kv[id], r.val)
  /\ kv' = IF IsThrow(r.val) THEN kv ELSE [kv EXCEPT ![id] = Saved(info)]
  /\ fmode' = IF IsThrow(r.val) THEN fmode ELSE writeFileMode(file, fmode)
  /\ dmode' = IF IsThrow(r.val) THEN dmode ELSE mkdirMode(dmode)
  /\ UNCHANGED <<now, concVars, flowVars, clientVars, logVars>>

DeleteToken(id) ==
  LET r == deleteToken(file, id) IN
  /\ file' = r.file
  /\ last' = Call("deleteToken", id, EmptyRec, kv[id], r.val)
  /\ kv' = IF IsThrow(r.val) THEN kv ELSE [kv EXCEPT ![id] = Deleted]
  /\ fmode' = IF IsThrow(r.val) THEN fmode ELSE writeFileMode(file, fmode)
  /\ dmode' = IF IsThrow(r.val) THEN dmode ELSE mkdirMode(dmode)
  /\ UNCHANGED <<now, concVars, flowVars, clientVars, logVars>>

GetToken(id) ==
  /\ last' = Call("getToken", id, EmptyRec, NoPre, getToken(file, id))
  /\ UNCHANGED <<file, now, kv, concVars, permVars, flowVars, clientVars, logVars>>

ListConnections ==
  /\ last' = Call("listConnections", "", EmptyRec, NoPre, listConnections(file))
  /\ UNCHANGED <<file, now, kv, concVars, permVars, flowVars, clientVars, logVars>>

IsTokenExpired(id) ==
  /\ last' = Call("isTokenExpired", id, EmptyRec, NoPre, isTokenExpired(file, now, id))
  /\ UNCHANGED <<file, now, kv, concVars, permVars, flowVars, clientVars, logVars>>

GetConnectionToken(id) ==
  /\ last' = Call("getConnectionToken", id, EmptyRec, NoPre, getConnectionToken(file, now, id))
  /\ UNCHANGED <<file, now, kv, concVars, permVars, flowVars, clientVars, logVars>>

\* a ConnectionManager call: before is the file when the call was made
ManagerCall(op, id, info, pre, val) ==
  [op |-> op, id |-> id, info |-> info, pre |-> pre, val |-> val, before |-> file]

SaveConnection(id, info) ==
  LET r == saveConnection(file, id, info, now) IN
  /\ file' = r.file
  /\ last' = ManagerCall("saveConnection", id, info, kv[id], r.val)
  /\ kv' = IF IsThrow(r.val) THEN kv ELSE [kv EXCEPT ![id] = Saved(info)]
  /\ fmode' = IF IsThrow(r.val) THEN fmode ELSE writeFileMode(file, fmode)
  /\ dmode' = IF IsThrow(r.val) THEN dmode ELSE mkdirMode(dmode)
  /\ UNCHANGED <<now, concVars, flowVars, clientVars, logVars>>

DeleteConnection(id) ==
  LET r == deleteConnection(file, id) IN
  /\ file' = r.file
  /\ last' = ManagerCall("deleteConnection", id, EmptyRec, kv[id], r.val)
  /\ kv' = IF IsThrow(r.val) THEN kv ELSE [kv EXCEPT ![id] = Deleted]
  /\ fmode' = IF IsThrow(r.val) THEN fmode ELSE writeFileMode(file, fmode)
  /\ dmode' = IF IsThrow(r.val) THEN dmode ELSE mkdirMode(dmode)
  /\ UNCHANGED <<now, concVars, flowVars, clientVars, logVars>>

ManagerListConnections ==
  /\ last' = ManagerCall("ConnectionManager.listConnections", "", EmptyRec, NoPre,
                         ConnectionManager_listConnections(file))
  /\ UNCHANGED <<file, now, kv, concVars, permVars, flowVars, clientVars, logVars>>

GetConnectionInfo(id) ==
  /\ last' = ManagerCall("getConnectionInfo", id, EmptyRec, NoPre, getConnectionInfo(file, id))
  /\ UNCHANGED <<file, now, kv, concVars, permVars, flowVars, clientVars, logVars>>

\* the clock moves forward between calls
Tick ==
  /\ now < MaxTicks * TickMs
  /\ now' = now + TickMs
  /\ last' = Call("tick", "", EmptyRec, NoPre, VoidV)
  /\ UNCHANGED <<file, kv, concVars, permVars, flowVars, clientVars, logVars>>

Next ==
  \/ \E id \in Ids, info \in Infos : SaveToken(id, info)
  \/ \E id \in Ids : DeleteToken(id)
  \/ \E id \in Ids : GetToken(id)
  \/ ListConnections
  \/ \E id \in Ids : IsTokenExpired(id)
  \/ \E id \in Ids : GetConnectionToken(id)
  \/ \E id \in Ids, info \in Infos : SaveConnection(id, info)
  \/ \E id \in Ids : DeleteConnection(id)
  \/ ManagerListConnections
  \/ \E id \in Ids : GetConnectionInfo(id)
  \/ Tick

Spec == Init /\ [][Next]_vars

---------------------------------------------------------------------------
(* The same calls on a token file found in any condition: missing,         *)
(* unreadable or not JSON, the JSON text null, the JSON text [].           *)

AnyFile == {Missing, Bad, JsonText("null", <<>>), JsonText("array", <<>>)}

InitAnyFile ==
  /\ file \in AnyFile
  /\ now = 0
  /\ last = Call("none", "", EmptyRec, NoPre, VoidV)
  /\ kv = [id \in Ids |-> Never]
  /\ whole = file
  /\ Quiet
  /\ fmode = IF file = Missing THEN NoMode ELSE FileMode
  /\ dmode = IF file = Missing THEN NoMode ELSE DirMode
  /\ FlowIdle
  /\ NoClientYet
  /\ env = Unset
  /\ LoggingFresh

SpecAnyFile == InitAnyFile /\ [][Next]_vars

---------------------------------------------------------------------------
(* The writes on a store whose file or directory was made by someone else, *)
(* with permission bits of their choosing.                                 *)

OtherFileMode == "0644"
OtherDirMode == "0755"

InitPerm ==
  /\ \/ file = Missing /\ fmode = NoMode /\ dmode \in {NoMode, OtherDirMode}
     \/ file = JsonText("object", <<>>) /\ fmode \in {FileMode, OtherFileMode}
          /\ dmode = OtherDirMode
  /\ now = 0
  /\ last = Call("none", "", EmptyRec, NoPre, VoidV)
  /\ kv = [id \in Ids |-> Never]
  /\ whole = file
  /\ Quiet
  /\ FlowIdle
  /\ NoClientYet
  /\ env = Unset
  /\ LoggingFresh

NextPerm ==
  \/ \E id \in {"svc1", "svc2"}, info \in Infos : SaveToken(id, info)
  \/ \E id \in {"svc1", "svc2"} : DeleteToken(id)

SpecPerm == InitPerm /\ [][NextPerm]_vars

---------------------------------------------------------------------------
(* Overlapping calls.  A call gives up control at each await: loadTokens   *)
(* reads the file in one step; writeFile opens the file for writing, which *)
(* truncates it, and writes the text in a later step, through a descriptor *)
(* of its own whose position starts at 0.  Between the steps of one call   *)
(* the steps of the other calls run.                                       *)

ConcIds == {"svc1", "svc2"}

\* records of the same length in bytes, so that the length of the text is
\* given by the number of its members
ConcInfos == {[token |-> "t2"], [token |-> "t3"]}

TextSize(f) == Len(f.entries)

\* the text written at position 0 of a file that holds cur: a longer text
\* already there keeps its tail, and the result is not JSON
Overwrite(cur, text) ==
  IF cur.kind \in {"missing", "partial"} THEN text
  ELSE IF cur.kind = "json" /\ TextSize(text) >= TextSize(cur) THEN text
  ELSE Bad

\* the maps a complete file can show to a reader now: the one written last,
\* or the one a writer that has truncated the file is about to write
CompleteMaps ==
  {loadTokens(whole).own} \cup
  {JSONstringify(snap[q]).entries : q \in {r \in Procs : pc[r] = "write"}}

\* getToken: loadTokens, then the lookup
GetTokenLoad(p, id) ==
  /\ pc[p] = "idle"
  /\ torn' = [torn EXCEPT ![p] = loadTokens(file).own \notin CompleteMaps]
  /\ arg' = [arg EXCEPT ![p] = [op |-> "getToken", id |-> id, info |-> EmptyRec]]
  /\ UNCHANGED <<file, now, last, kv, pc, snap, whole, permVars, flowVars, clientVars, logVars>>

\* saveToken up to the call of writeFile: loadTokens and the assignment
SaveTokenLoad(p, id, info) ==
  /\ pc[p] = "idle"
  /\ torn' = [torn EXCEPT ![p] = loadTokens(file).own \notin CompleteMaps]
  /\ arg' = [arg EXCEPT ![p] = [op |-> "saveToken", id |-> id, info |-> info]]
  /\ snap' = [snap EXCEPT ![p] = SetProp(loadTokens(file), id, StoredRecord(info, now))]
  /\ pc' = [pc EXCEPT ![p] = "open"]
  /\ UNCHANGED <<file, now, last, kv, whole, permVars, flowVars, clientVars, logVars>>

\* deleteToken up to the call of writeFile: loadTokens and the delete
DeleteTokenLoad(p, id) ==
  /\ pc[p] = "idle"
  /\ torn' = [torn EXCEPT ![p] = loadTokens(file).own \notin CompleteMaps]
  /\ arg' = [arg EXCEPT ![p] = [op |-> "deleteToken", id |-> id, info |-> EmptyRec]]
  /\ snap' = [snap EXCEPT ![p] = DeleteProp(loadTokens(file), id)]
  /\ pc' = [pc EXCEPT ![p] = "open"]
  /\ UNCHANGED <<file, now, last, kv, whole, permVars, flowVars, clientVars, logVars>>

\* saveTokens up to the opening of the file: mkdir if the directory is
\* missing, then writeFile opens the file with flag "w": created if missing,
\* truncated
WriteFileOpen(p) ==
  /\ pc[p] = "open"
  /\ file' = Partial
  /\ pc' = [pc EXCEPT ![p] = "write"]
  /\ fmode' = writeFileMode(file, fmode)
  /\ dmode' = mkdirMode(dmode)
  /\ UNCHANGED <<now, last, kv, arg, snap, whole, torn, flowVars, clientVars, logVars>>

\* writeFile writes the text and the call returns
WriteFileData(p) ==
  /\ pc[p] = "write"
  /\ file' = Overwrite(file, saveTokens(file, snap[p]))
  /\ whole' = file'
  /\ pc' = [pc EXCEPT ![p] = "idle"]
  /\ snap' = [snap EXCEPT ![p] = EmptyObject]
  /\ UNCHANGED <<now, last, kv, arg, torn, permVars, flowVars, clientVars, logVars>>

NextConc ==
  \/ \E p \in Procs, id \in ConcIds : GetTokenLoad(p, id)
  \/ \E p \in Procs, id \in ConcIds, info \in ConcInfos : SaveTokenLoad(p, id, info)
  \/ \E p \in Procs, id \in ConcIds : DeleteTokenLoad(p, id)
  \/ \E p \in Procs : WriteFileOpen(p)
  \/ \E p \in Procs : WriteFileData(p)

SpecConc == Init /\ [][NextConc]_vars

---------------------------------------------------------------------------
(* ConnectionManager.getConnectionToken running next to other calls.  It   *)
(* reads the store twice, each read behind an await; the saveConnection    *)
(* and deleteConnection calls of other callers run whole before, between   *)
(* and after the two reads.                                                *)

\* what a getConnectionToken call leaves in last: tokenInfo is what its
\* getToken read returned, checked is what the file held under the id when
\* its isTokenExpired read ran
ManagerRead(id, val, tokenInfo, checked) ==
  [op |-> "getConnectionToken", id |-> id, info |-> EmptyRec, pre |-> NoPre,
   val |-> val, tokenInfo |-> tokenInfo, checked |-> checked]

\* getConnectionToken up to its second await: storage.getToken and the test
\* of its result; the call returns null here when there is no record
GetConnectionTokenGet(p, id) ==
  LET tokenInfo == getToken(file, id) IN
  /\ pc[p] = "idle"
  /\ arg' = [arg EXCEPT ![p] = [op |-> "getConnectionToken", id |-> id, info |-> EmptyRec,
                                tokenInfo |-> tokenInfo]]
  /\ IF IsThrow(tokenInfo) \/ tokenInfo = NullV
       THEN /\ last' = ManagerRead(id, tokenInfo, tokenInfo, tokenInfo)
            /\ pc' = pc
       ELSE /\ last' = last
            /\ pc' = [pc EXCEPT ![p] = "check"]
  /\ UNCHANGED <<file, now, kv, snap, whole, torn, permVars, flowVars, clientVars, logVars>>

\* the rest of getConnectionToken: storage.isTokenExpired, which loads the
\* file again, and the return
GetConnectionTokenCheck(p) ==
  LET expired == isTokenExpired(file, now, arg[p].id)
      tokenInfo == arg[p].tokenInfo
  IN
  /\ pc[p] = "check"
  /\ last' = ManagerRead(arg[p].id,
                         IF IsThrow(expired) THEN expired
                         ELSE IF expired.b THEN NullV
                         ELSE IF "token" \in DOMAIN tokenInfo.r THEN StrV(tokenInfo.r.token)
                         ELSE UndefinedV,
                         tokenInfo, getToken(file, arg[p].id))
  /\ pc' = [pc EXCEPT ![p] = "idle"]
  /\ UNCHANGED <<file, now, kv, arg, snap, whole, torn, permVars, flowVars, clientVars, logVars>>

Readers == {"p1"}

NextReads ==
  \/ \E p \in Readers, id \in ConcIds : GetConnectionTokenGet(p, id)
  \/ \E p \in Readers : GetConnectionTokenCheck(p)
  \/ \E id \in ConcIds, info \in Infos : SaveConnection(id, info)
  \/ \E id \in ConcIds : DeleteConnection(id)
  \/ Tick

SpecReads == Init /\ [][NextReads]_vars

---------------------------------------------------------------------------
(* OAuthFlow: texts and URLs.  A string the code takes apart or puts       *)
(* together is a text: a sequence of units, a unit being one of the        *)
(* characters with a meaning in a query string (" ", "&", "=", "+", ",",   *)
(* "%", ":", "/") or a run of unreserved characters such as "code".        *)

TextV(chars) == [t |-> "text", chars |-> chars]

\* if (v), !v, v || w: null, undefined and the empty string are falsy
Truthy(v) == v.t = "text" /\ v.chars # <<>>

ErrorV(name, message) == [t |-> "throw", e |-> name, message |-> message]
GaugidAuthError(message) == ErrorV("GaugidAuthError", message)

\* the serializer of application/x-www-form-urlencoded, unit by unit
urlencodeUnit(c) ==
  CASE c = " " -> "+"
    [] c = "&" -> "%26"
    [] c = "=" -> "%3D"
    [] c = "+" -> "%2B"
    [] c = "," -> "%2C"
    [] c = "%" -> "%25"
    [] c = ":" -> "%3A"
    [] c = "/" -> "%2F"
    [] OTHER -> c

urlencode(text) == [i \in 1..Len(text) |-> urlencodeUnit(text[i])]

\* the parser of application/x-www-form-urlencoded, unit by unit
urldecodeUnit(u) ==
  CASE u = "+" -> " "
    [] u = "%26" -> "&"
    [] u = "%3D" -> "="
    [] u = "%2B" -> "+"
    [] u = "%2C" -> ","
    [] u = "%25" -> "%"
    [] u = "%3A" -> ":"
    [] u = "%2F" -> "/"
    [] OTHER -> u

urldecode(text) == [i \in 1..Len(text) |-> urldecodeUnit(text[i])]

\* the first position of unit u in text, 0 if there is none
IndexOf(text, u) ==
  IF \E i \in 1..Len(text) : text[i] = u
    THEN CHOOSE i \in 1..Len(text) :
           text[i] = u /\ \A j \in 1..(i - 1) : text[j] # u
    ELSE 0

RECURSIVE split(_, _)
split(text, u) ==
  LET i == IndexOf(text, u) IN
  IF i = 0 THEN <<text>>
  ELSE <<SubSeq(text, 1, i - 1)>> \o split(SubSeq(text, i + 1, Len(text)), u)

\* URLSearchParams.toString() of a list of [k, v] pairs
RECURSIVE URLSearchParams_toString(_)
URLSearchParams_toString(pairs) ==
  IF pairs = <<>> THEN <<>>
  ELSE LET head == urlencode(pairs[1].k) \o <<"=">> \o urlencode(pairs[1].v) IN
       IF Len(pairs) = 1 THEN head
       ELSE head \o <<"&">> \o URLSearchParams_toString(Tail(pairs))

\* new URL(url).searchParams: the pairs of the query, empty pieces skipped,
\* a piece cut at its first "="
searchParams(query) ==
  LET pieces == SelectSeq(split(query, "&"), LAMBDA piece : piece # <<>>)
      pair(piece) ==
        LET i == IndexOf(piece, "=") IN
        IF i = 0 THEN [k |-> urldecode(piece), v |-> <<>>]
        ELSE [k |-> urldecode(SubSeq(piece, 1, i - 1)),
              v |-> urldecode(SubSeq(piece, i + 1, Len(piece)))]
  IN [i \in 1..Len(pieces) |-> pair(pieces[i])]

\* URLSearchParams.get(name): the value of the first pair named so, or null
get(params, name) ==
  LET at == {i \in 1..Len(params) : params[i].k = <<name>>} IN
  IF at = {} THEN NullV
  ELSE TextV(params[CHOOSE i \in at : \A j \in at : i <= j].v)

\* scopes.join(",")
RECURSIVE join(_)
join(scopes) ==
  IF scopes = <<>> THEN <<>>
  ELSE IF Len(scopes) = 1 THEN scopes[1]
  ELSE scopes[1] \o <<",">> \o join(Tail(scopes))

---------------------------------------------------------------------------
(* OAuthFlow.getAuthorizationUrl and OAuthFlow.parseAuthorizationResponse  *)

\* at most MaxDraws random state values are generated in a run
MaxDraws == 2

\* the OAuthFlowConfig of the flow
ClientId == <<"my-service">>
RedirectUri == <<"https", ":", "/", "/", "myapp.com", "/", "callback">>
ApiUrl == <<"https", ":", "/", "/", "api.gaugid.com">>

\* randomBytes(32).toString("base64url") at the n-th draw: 43 unreserved
\* characters; a cryptographic generator does not give the same bytes twice
randomState(n) == <<"rnd" \o ToString(n)>>

\* the authorization URL with the same state on every call
getAuthorizationUrl_fixedState(scopes, state, n) ==
  LET st == IF Truthy(state) THEN state.chars ELSE randomState(0)
      params == << [k |-> <<"client_id">>, v |-> ClientId],
                   [k |-> <<"redirect_uri">>, v |-> RedirectUri],
                   [k |-> <<"response_type">>, v |-> <<"code">>],
                   [k |-> <<"scope">>, v |-> join(scopes)],
                   [k |-> <<"state">>, v |-> st] >>
  IN [authUrl |-> [base |-> ApiUrl \o <<"/", "connect", "/", "authorize">>,
                   query |-> URLSearchParams_toString(params)],
      state |-> TextV(st)]

\* state is options.state (undefined when omitted), n the number of the draw
\* that randomBytes makes if it is called
getAuthorizationUrl(scopes, state, n) ==
  LET st == IF Truthy(state) THEN state.chars ELSE randomState(n)
      params == << [k |-> <<"client_id">>, v |-> ClientId],
                   [k |-> <<"redirect_uri">>, v |-> RedirectUri],
                   [k |-> <<"response_type">>, v |-> <<"code">>],
                   [k |-> <<"scope">>, v |-> join(scopes)],
                   [k |-> <<"state">>, v |-> st] >>
  IN [authUrl |-> [base |-> ApiUrl \o <<"/", "connect", "/", "authorize">>,
                   query |-> URLSearchParams_toString(params)],
      state |-> TextV(st)]

\* the state check dropped
parseAuthorizationResponse_noStateCheck(redirectUrl, expectedState) ==
  LET params == searchParams(redirectUrl.query)
      error == get(params, "error")
      errorDescription ==
        IF Truthy(get(params, "error_description"))
          THEN get(params, "error_description").chars ELSE <<>>
      code == get(params, "code")
  IN IF Truthy(error)
       THEN GaugidAuthError(<<"OAuth error: ">> \o error.chars \o <<" - ">> \o errorDescription)
     ELSE IF ~Truthy(code)
       THEN GaugidAuthError(<<"Authorization code not found in redirect URL">>)
     ELSE code

\* the error check made after the state check and the code check
parseAuthorizationResponse_errorLast(redirectUrl, expectedState) ==
  LET params == searchParams(redirectUrl.query)
      error == get(params, "error")
      errorDescription ==
        IF Truthy(get(params, "error_description"))
          THEN get(params, "error_description").chars ELSE <<>>
      state == get(params, "state")
      code == get(params, "code")
  IN IF state # TextV(expectedState)
       THEN GaugidAuthError(<<"State mismatch in OAuth callback">>)
     ELSE IF ~Truthy(code)
       THEN GaugidAuthError(<<"Authorization code not found in redirect URL">>)
     ELSE IF Truthy(error)
       THEN GaugidAuthError(<<"OAuth error: ">> \o error.chars \o <<" - ">> \o errorDescription)
     ELSE code

\* expectedState is a string; the value returned is the code, or the error
\* thrown
parseAuthorizationResponse(redirectUrl, expectedState) ==
  LET params == searchParams(redirectUrl.query)
      error == get(params, "error")
      errorDescription ==
        IF Truthy(get(params, "error_description"))
          THEN get(params, "error_description").chars ELSE <<>>
      state == get(params, "state")
      code == get(params, "code")
  IN IF Truthy(error)
       THEN GaugidAuthError(<<"OAuth error: ">> \o error.chars \o <<" - ">> \o errorDescription)
     ELSE IF state # TextV(expectedState)
       THEN GaugidAuthError(<<"State mismatch in OAuth callback">>)
     ELSE IF ~Truthy(code)
       THEN GaugidAuthError(<<"Authorization code not found in redirect URL">>)
     ELSE code

(* Inputs *)

ScopeLists ==
  { <<>>,
    << <<"a2p", ":", "preferences">> >>,
    << <<"a2p", ":", "preferences">>, <<"a2p", ":", "interests">> >>,
    << <<"a", "&", "b", " ", "c">>, <<"x", ",", "y">> >> }

StateOptions == {UndefinedV, TextV(<<>>), TextV(<<"s1">>), TextV(<<"s", "=", "2">>)}

\* the values a redirect URL can carry under each parameter name
ParamNames == <<"error", "error_description", "state", "code">>
ParamValues ==
  [ error |-> {<<>>, <<"access_denied">>},
    error_description |-> {<<"user", " ", "denied">>},
    state |-> {<<>>, <<"s1">>, <<"s", "=", "2">>},
    code |-> {<<>>, <<"c1">>, <<"c", "+", "&", "1">>} ]

\* a redirect query: for some of the names, one value each
Carried ==
  UNION { [names -> UNION {ParamValues[n] : n \in names}] :
            names \in SUBSET {ParamNames[i] : i \in 1..Len(ParamNames)} }
Queries == {q \in Carried : \A n \in DOMAIN q : q[n] \in ParamValues[n]}

\* the redirect URL the authorization server builds for a query
RECURSIVE PairsOf(_, _)
PairsOf(q, names) ==
  IF names = <<>> THEN <<>>
  ELSE (IF names[1] \in DOMAIN q
          THEN <<[k |-> <<names[1]>>, v |-> q[names[1]]]>> ELSE <<>>)
       \o PairsOf(q, Tail(names))
RedirectUrl(q) ==
  [base |-> RedirectUri, query |-> URLSearchParams_toString(PairsOf(q, ParamNames))]

ExpectedStates == {<<>>, <<"s1">>, <<"s", "=", "2">>}

NetOps == {"exchangeCode", "revokeToken"}

\* no exchangeCode or revokeToken call is pending
Settled == flow.op \in NetOps => flow.pc = "done"

\* the variables of the token store
tokenVars == <<file, now, last, kv, concVars, permVars, clientVars, logVars>>

GetAuthorizationUrl(scopes, state) ==
  /\ Settled
  /\ Truthy(state) \/ Len(drawn) < MaxDraws
  /\ flow' = [op |-> "getAuthorizationUrl", scopes |-> scopes, state |-> state,
              val |-> getAuthorizationUrl(scopes, state, Len(drawn) + 1)]
  /\ drawn' = IF Truthy(state) THEN drawn ELSE Append(drawn, flow'.val.state.chars)
  /\ UNCHANGED tokenVars

ParseAuthorizationResponse(q, expectedState) ==
  /\ Settled
  /\ flow' = [op |-> "parseAuthorizationResponse", q |-> q,
              expectedState |-> expectedState,
              val |-> parseAuthorizationResponse(RedirectUrl(q), expectedState)]
  /\ UNCHANGED <<drawn, tokenVars>>

---------------------------------------------------------------------------
(* OAuthFlow.exchangeCode and OAuthFlow.revokeToken: the mapping of the    *)
(* server's answer to what the call returns or throws.                     *)

\* this.timeout = config.timeout || 30000
DefaultTimeout == 30000

\* JSON values of a response body; JsonRejects stands for a body on which
\* response.json() rejects (not JSON, or the connection lost while reading)
JsonRejects == [t |-> "rejects"]
JStr(s) == [t |-> "string", s |-> s]
JNum(n) == [t |-> "number", n |-> n]
JObj(fields) == [t |-> "object", fields |-> fields]

\* obj.name for a parsed JSON value that is not null: undefined unless obj is
\* an object with that member
Member(obj, name) ==
  IF obj.t = "object" /\ name \in DOMAIN obj.fields THEN obj.fields[name] ELSE UndefinedV

\* a JSON value is truthy unless it is null, undefined or the empty string
JTruthy(v) ==
  /\ v.t \notin {"null", "undefined"}
  /\ ~(v.t = "string" /\ v.s = "")
  /\ ~(v.t = "boolean" /\ ~v.b)

\* the table of error codes (an excerpt) and the lookup ERROR_CODES[code]
ERROR_CODES ==
  [ A2P001 |-> "Not authorized",
    A2P017 |-> "Invalid authorization code",
    A2P019 |-> "Invalid or expired connection token",
    A2P020 |-> "Connection has been revoked",
    A2P021 |-> "Connection token required",
    A2P023 |-> "Rate limit exceeded" ]

AuthCodes == {"A2P001", "A2P019", "A2P020", "A2P021"}

GaugidAuthErrorWithCode(message, code) ==
  [t |-> "throw", e |-> "GaugidAuthError", message |-> message, code |-> code]
GaugidAPIError(message, code, statusCode) ==
  [t |-> "throw", e |-> "GaugidAPIError", message |-> message, code |-> code,
   statusCode |-> statusCode]
GaugidConnectionError(message) == ErrorV("GaugidConnectionError", message)

\* the kind of error a value is: "GaugidAuthError", "GaugidAPIError",
\* "GaugidConnectionError", or "none" for a value returned
Kind(v) == IF v.t = "throw" THEN v.e ELSE "none"

\* ERROR_CODES[code] as it prints, "" when it is undefined.  The table is a
\* plain object: a code that names a member of Object.prototype finds that
\* member.
ERROR_CODES_at(code) ==
  IF code \in DOMAIN ERROR_CODES THEN ERROR_CODES[code]
  ELSE IF code = "constructor" THEN "function Object() { [native code] }"
  ELSE ""

\* the description appended also when the message holds it already
parseGaugidError_alwaysAppend(response, errorData) ==
  LET errorObj == IF errorData.t = "null" THEN UndefinedV ELSE Member(errorData, "error")
      fallback == IF response.statusText # "" THEN <<response.statusText>>
                  ELSE <<"Unknown error">>
      isObj == errorObj.t = "object"
      code == IF isObj THEN Member(errorObj, "code") ELSE UndefinedV
      message0 == IF isObj /\ JTruthy(Member(errorObj, "message"))
                    THEN <<Member(errorObj, "message").s>> ELSE fallback
      description == IF code.t = "string" THEN ERROR_CODES_at(code.s) ELSE ""
      message == IF description # ""
                   THEN message0 \o <<" (", description, ")">>
                   ELSE message0
  IN IF code.t = "string" /\ code.s \in AuthCodes
       THEN GaugidAuthErrorWithCode(message, code)
       ELSE GaugidAPIError(message, code, response.status)

\* parseGaugidError(response, errorData); errorData is a parsed JSON value.
\* A message is a sequence of pieces; code is the code string or undefined.
parseGaugidError(response, errorData) ==
  LET errorObj == IF errorData.t = "null" THEN UndefinedV ELSE Member(errorData, "error")
      fallback == IF response.statusText # "" THEN <<response.statusText>>
                  ELSE <<"Unknown error">>
      isObj == errorObj.t = "object"
      code == IF isObj THEN Member(errorObj, "code") ELSE UndefinedV
      message0 == IF isObj /\ JTruthy(Member(errorObj, "message"))
                    THEN <<Member(errorObj, "message").s>> ELSE fallback
      description == IF code.t = "string" THEN ERROR_CODES_at(code.s) ELSE ""
      message == IF description # "" /\ (\A i \in 1..Len(message0) : message0[i] # description)
                   THEN message0 \o <<" (", description, ")">>
                   ELSE message0
  IN IF code.t = "string" /\ code.s \in AuthCodes
       THEN GaugidAuthErrorWithCode(message, code)
       ELSE GaugidAPIError(message, code, response.status)

\* response.ok
ok(status) == status >= 200 /\ status <= 299

\* the schema without the default of token_type
OAuthTokenResponseSchema_parse_noDefault(data) ==
  LET has(name, type) == Member(data, name).t = type
      opt(name, type) == Member(data, name).t \in {type, "undefined"}
      kept == {"access_token", "token_type", "expires_in", "scope",
               "connection_id", "user_did"}
  IN IF /\ data.t = "object"
        /\ has("access_token", "string")
        /\ opt("token_type", "string")
        /\ has("expires_in", "number")
        /\ has("scope", "string")
        /\ opt("connection_id", "string")
        /\ opt("user_did", "string")
       THEN JObj([name \in DOMAIN data.fields \cap kept |-> data.fields[name]])
       ELSE ErrorV("ZodError", <<"invalid token response">>)

\* OAuthTokenResponseSchema.parse(data): the members of the schema, with
\* token_type "Bearer" when it is missing, or a thrown ZodError
OAuthTokenResponseSchema_parse(data) ==
  LET has(name, type) == Member(data, name).t = type
      opt(name, type) == Member(data, name).t \in {type, "undefined"}
      kept == {"access_token", "token_type", "expires_in", "scope",
               "connection_id", "user_did"}
  IN IF /\ data.t = "object"
        /\ has("access_token", "string")
        /\ opt("token_type", "string")
        /\ has("expires_in", "number")
        /\ has("scope", "string")
        /\ opt("connection_id", "string")
        /\ opt("user_did", "string")
       THEN JObj([name \in (DOMAIN data.fields \cap kept) \cup {"token_type"} |->
                    IF name \in DOMAIN data.fields THEN data.fields[name]
                    ELSE JStr("Bearer")])
       ELSE ErrorV("ZodError", <<"invalid token response">>)

\* the message of the GaugidAuthError thrown for status 400
tokenExchangeFailedMessage(body) ==
  LET errorObj == IF body.t \in {"rejects", "null"} THEN UndefinedV
                  ELSE Member(body, "error")
  IN IF errorObj.t = "object" /\ JTruthy(Member(errorObj, "message"))
       THEN <<Member(errorObj, "message").s>>
     ELSE IF errorObj.t = "string" /\ JTruthy(errorObj)
       THEN <<errorObj.s>>
     ELSE <<"Token exchange failed">>

\* exchangeCode without the special case for status 401
exchangeCode_no401Case(response, body) ==
  IF response.status = 400
    THEN GaugidAuthError(tokenExchangeFailedMessage(body))
  ELSE IF ~ok(response.status)
    THEN parseGaugidError(response, IF body = JsonRejects THEN JObj(EmptyRec) ELSE body)
  ELSE IF body = JsonRejects
    THEN GaugidConnectionError(<<"Failed to connect to Gaugid API: ", "SyntaxError">>)
  ELSE IF IsThrow(OAuthTokenResponseSchema_parse(body))
    THEN GaugidConnectionError(<<"Failed to connect to Gaugid API: ", "ZodError">>)
  ELSE OAuthTokenResponseSchema_parse(body)

\* exchangeCode without the special case for status 400
exchangeCode_no400Case(response, body) ==
  IF response.status = 401
    THEN GaugidAuthError(<<"Invalid client credentials">>)
  ELSE IF ~ok(response.status)
    THEN parseGaugidError(response, IF body = JsonRejects THEN JObj(EmptyRec) ELSE body)
  ELSE IF body = JsonRejects
    THEN GaugidConnectionError(<<"Failed to connect to Gaugid API: ", "SyntaxError">>)
  ELSE IF IsThrow(OAuthTokenResponseSchema_parse(body))
    THEN GaugidConnectionError(<<"Failed to connect to Gaugid API: ", "ZodError">>)
  ELSE OAuthTokenResponseSchema_parse(body)

\* exchangeCode for a server that answers: response is [status, statusText],
\* body what response.json() gives if the code reads it
exchangeCode(response, body) ==
  IF response.status = 401
    THEN GaugidAuthError(<<"Invalid client credentials">>)
  ELSE IF response.status = 400
    THEN GaugidAuthError(tokenExchangeFailedMessage(body))
  ELSE IF ~ok(response.status)
    THEN parseGaugidError(response, IF body = JsonRejects THEN JObj(EmptyRec) ELSE body)
  ELSE IF body = JsonRejects
    THEN GaugidConnectionError(<<"Failed to connect to Gaugid API: ", "SyntaxError">>)
  ELSE IF IsThrow(OAuthTokenResponseSchema_parse(body))
    THEN GaugidConnectionError(<<"Failed to connect to Gaugid API: ", "ZodError">>)
  ELSE OAuthTokenResponseSchema_parse(body)

\* revokeToken with the special case for status 400 that exchangeCode has
revokeToken_with400AsAuth(response, body) ==
  IF response.status = 401
    THEN GaugidAuthError(<<"Invalid client credentials">>)
  ELSE IF response.status = 400
    THEN GaugidAuthError(tokenExchangeFailedMessage(body))
  ELSE IF ~ok(response.status)
    THEN parseGaugidError(response, IF body = JsonRejects THEN JObj(EmptyRec) ELSE body)
  ELSE VoidV

\* revokeToken for a server that answers
revokeToken(response, body) ==
  IF response.status = 401
    THEN GaugidAuthError(<<"Invalid client credentials">>)
  ELSE IF ~ok(response.status)
    THEN parseGaugidError(response, IF body = JsonRejects THEN JObj(EmptyRec) ELSE body)
  ELSE VoidV

\* whether the call reads the body of a response with this status
readsBody(op, status) ==
  /\ status # 401
  /\ op = "revokeToken" => ~ok(status)

\* fetch rejects: the network failed, or the timer aborted the request
fetchRejects(cause) ==
  IF cause = "AbortError"
    THEN GaugidConnectionError(<<"Request timeout after ", ToString(DefaultTimeout), "ms">>)
    ELSE GaugidConnectionError(<<"Failed to connect to Gaugid API: ", cause>>)

(* Inputs: what the server answers *)

Statuses == {200, 201, 400, 401, 403, 500}
StatusTexts == {"", "Server says no"}
Responses == [status : Statuses, statusText : StatusTexts]

TokenBodies ==
  { JObj([access_token |-> JStr("tok"), token_type |-> JStr("mac"),
          expires_in |-> JNum(3600), scope |-> JStr("a2p:preferences"),
          connection_id |-> JStr("conn1")]),
    JObj([access_token |-> JStr("tok"), expires_in |-> JNum(3600),
          scope |-> JStr("a2p:preferences"), foo |-> JStr("bar")]),
    JObj([token_type |-> JStr("Bearer"), expires_in |-> JNum(3600),
          scope |-> JStr("a2p:preferences")]),
    JObj([access_token |-> JStr("tok"), expires_in |-> JStr("3600"),
          scope |-> JStr("a2p:preferences")]) }

ErrorBodies ==
  { JsonRejects,
    NullV,
    JObj(EmptyRec),
    JObj([error |-> JStr("invalid_grant")]),
    JObj([error |-> JStr("")]),
    JObj([error |-> JObj([message |-> JStr("Code expired")])]),
    JObj([error |-> JObj([code |-> JStr("A2P017"), message |-> JStr("")])]),
    JObj([error |-> JObj([code |-> JStr("A2P017"), message |-> JStr("Bad code")])]),
    JObj([error |-> JObj([code |-> JStr("A2P001"), message |-> JStr("Not authorized")])]),
    JObj([error |-> JObj([code |-> JStr("A2P020")])]),
    JObj([error |-> JObj([code |-> JStr("X999"), message |-> JStr("Odd")])]),
    JObj([error |-> JObj([code |-> JStr("constructor"), message |-> JStr("Odd")])]) }

Bodies == TokenBodies \cup ErrorBodies

(* A call in steps: the request goes out with the timer armed; fetch        *)
(* resolves when the headers arrive, and the timer is cleared; the body is  *)
(* read where the code reads it.  The server may stop answering at any      *)
(* point.                                                                   *)

NoResponse == [status |-> 0, statusText |-> ""]
Unread == [t |-> "unread"]
PendingV == [t |-> "pending"]

\* a catch block that sends the request once more
fetchCalls_retryInCatch(part) == IF part \in {"request", "catch"} THEN 1 ELSE 0

\* how many times each part of the call invokes fetch: the code up to the
\* first await ("request"), the code after the headers ("headers"), the code
\* after response.json() ("body"), the catch block ("catch")
fetchCalls(part) == IF part = "request" THEN 1 ELSE 0

\* the call up to `await fetch(...)`; sent counts the HTTP requests it made
Request(op) ==
  [op |-> op, pc |-> "fetch", timer |-> TRUE, elapsed |-> FALSE,
   response |-> NoResponse, body |-> Unread, val |-> PendingV,
   sent |-> fetchCalls("request")]

Outcome(op, response, body) ==
  IF op = "exchangeCode" THEN exchangeCode(response, body)
  ELSE revokeToken(response, body)

ExchangeCode ==
  /\ Settled
  /\ flow' = Request("exchangeCode")
  /\ UNCHANGED <<drawn, tokenVars>>

RevokeToken ==
  /\ Settled
  /\ flow' = Request("revokeToken")
  /\ UNCHANGED <<drawn, tokenVars>>

\* the headers arrive: clearTimeout, then the code up to the next await
FetchResolves(response) ==
  /\ flow.op \in NetOps /\ flow.pc = "fetch"
  /\ flow' = IF readsBody(flow.op, response.status)
               THEN [flow EXCEPT !.pc = "body", !.timer = FALSE, !.response = response,
                                 !.sent = @ + fetchCalls("headers")]
               ELSE [flow EXCEPT !.pc = "done", !.timer = FALSE, !.response = response,
                                 !.val = Outcome(flow.op, response, Unread),
                                 !.sent = @ + fetchCalls("headers") +
                                   (IF IsThrow(Outcome(flow.op, response, Unread))
                                      THEN fetchCalls("catch") ELSE 0)]
  /\ UNCHANGED <<drawn, tokenVars>>

\* the network fails before the headers arrive
FetchFails ==
  /\ flow.op \in NetOps /\ flow.pc = "fetch"
  /\ flow' = [flow EXCEPT !.pc = "done", !.val = fetchRejects("TypeError"),
                          !.sent = @ + fetchCalls("catch")]
  /\ UNCHANGED <<drawn, tokenVars>>

\* response.json() settles
BodySettles(body) ==
  /\ flow.op \in NetOps /\ flow.pc = "body"
  /\ flow' = [flow EXCEPT !.pc = "done", !.body = body,
                          !.val = Outcome(flow.op, flow.response, body),
                          !.sent = @ + fetchCalls("body") +
                            (IF IsThrow(Outcome(flow.op, flow.response, body))
                               THEN fetchCalls("catch") ELSE 0)]
  /\ UNCHANGED <<drawn, tokenVars>>

\* this.timeout milliseconds have passed since the call began: the timer, if
\* still armed, aborts the request
TimeoutElapses ==
  /\ flow.op \in NetOps /\ flow.pc # "done" /\ ~flow.elapsed
  /\ flow' = IF flow.timer
               THEN [flow EXCEPT !.elapsed = TRUE, !.pc = "done",
                                 !.val = fetchRejects("AbortError"),
                                 !.sent = @ + fetchCalls("catch")]
               ELSE [flow EXCEPT !.elapsed = TRUE]
  /\ UNCHANGED <<drawn, tokenVars>>

---------------------------------------------------------------------------
(* The requests of GaugidStorage and GaugidClient, each as one step from   *)
(* the call to its outcome, for a server that answers, a network that      *)
(* fails, or a timeout.                                                    *)

\* the catch block with GaugidAuthError let through as well
requestCatch_authLetThrough(error) ==
  IF Kind(error) \in {"GaugidAPIError", "GaugidConnectionError", "GaugidAuthError"}
    THEN error
  ELSE IF error.e = "TimeoutError"
    THEN GaugidConnectionError(<<"Request timeout after ", ToString(DefaultTimeout), "ms">>)
  ELSE GaugidConnectionError(<<"Failed to connect to Gaugid API: ", error.e>>)

\* the catch block these requests share: a GaugidAPIError or a
\* GaugidConnectionError is thrown again, anything else is wrapped
requestCatch(error) ==
  IF Kind(error) \in {"GaugidAPIError", "GaugidConnectionError"}
    THEN error
  ELSE IF error.e = "TimeoutError"
    THEN GaugidConnectionError(<<"Request timeout after ", ToString(DefaultTimeout), "ms">>)
  ELSE GaugidConnectionError(<<"Failed to connect to Gaugid API: ", error.e>>)

\* what `throw parseGaugidError(response, await response.json().catch(...))`
\* throws
errorResponse(response, body) ==
  parseGaugidError(response, IF body = JsonRejects THEN JObj(EmptyRec) ELSE body)

\* `const data = await response.json()` followed by a read of data.success:
\* the error thrown, or VoidV when there is none
readSuccess(body) ==
  IF body = JsonRejects THEN ErrorV("SyntaxError", <<"not JSON">>)
  ELSE IF body.t = "null" THEN ErrorV("TypeError", <<"data is null">>)
  ELSE VoidV

\* GaugidStorage.get
GaugidStorage_get(response, body) ==
  IF response.status = 404 THEN NullV
  ELSE IF ~ok(response.status) THEN requestCatch(errorResponse(response, body))
  ELSE IF IsThrow(readSuccess(body)) THEN requestCatch(readSuccess(body))
  ELSE IF JTruthy(Member(body, "success")) THEN Member(body, "data")
  ELSE NullV

\* GaugidStorage.set and GaugidStorage.delete
GaugidStorage_set(response, body) ==
  IF ~ok(response.status) THEN requestCatch(errorResponse(response, body))
  ELSE VoidV

\* GaugidStorage.proposeMemory
GaugidStorage_proposeMemory(response, body) ==
  IF ~ok(response.status) THEN requestCatch(errorResponse(response, body))
  ELSE IF IsThrow(readSuccess(body)) THEN requestCatch(readSuccess(body))
  ELSE IF JTruthy(Member(body, "success")) THEN Member(body, "data")
  ELSE JObj(EmptyRec)

\* GaugidClient.getProfile without userDid, and GaugidClient.requestAccess and
\* GaugidClient.proposeMemory, which treat the answer in the same way
GaugidClient_getProfile(response, body) ==
  IF ~ok(response.status) THEN requestCatch(errorResponse(response, body))
  ELSE IF IsThrow(readSuccess(body)) THEN requestCatch(readSuccess(body))
  ELSE IF ~JTruthy(Member(body, "success"))
    THEN requestCatch(parseGaugidError(response, body))
  ELSE IF JTruthy(Member(body, "data")) THEN Member(body, "data")
  ELSE JObj(EmptyRec)

RequestPaths ==
  {"GaugidStorage.get", "GaugidStorage.set", "GaugidStorage.proposeMemory",
   "GaugidClient.getProfile"}

requestOutcome(path, response, body) ==
  CASE path = "GaugidStorage.get" -> GaugidStorage_get(response, body)
    [] path = "GaugidStorage.set" -> GaugidStorage_set(response, body)
    [] path = "GaugidStorage.proposeMemory" -> GaugidStorage_proposeMemory(response, body)
    [] path = "GaugidClient.getProfile" -> GaugidClient_getProfile(response, body)

\* answers to these requests: {success, data} or {success: false, error}
ProfileBodies ==
  { JObj([success |-> BoolV(TRUE), data |-> JObj([id |-> JStr("did:a2p:user:gaugid:alice")])]),
    JObj([success |-> BoolV(FALSE),
          error |-> JObj([code |-> JStr("A2P019"), message |-> JStr("Token expired")])]) }

\* the server answers the request
RequestAnswered(path, response, body) ==
  /\ Settled
  /\ flow' = [op |-> path, pc |-> "done", response |-> response, body |-> body,
              val |-> requestOutcome(path, response, body)]
  /\ UNCHANGED <<drawn, tokenVars>>

\* fetch rejects: the network failed, or AbortSignal.timeout fired
RequestFails(path, cause) ==
  /\ Settled
  /\ flow' = [op |-> path, pc |-> "done", response |-> NoResponse, body |-> Unread,
              val |-> requestCatch(ErrorV(cause, <<"fetch failed">>))]
  /\ UNCHANGED <<drawn, tokenVars>>

NextOAuth ==
  \/ \E scopes \in ScopeLists, state \in StateOptions : GetAuthorizationUrl(scopes, state)
  \/ \E q \in Queries, expectedState \in ExpectedStates :
       ParseAuthorizationResponse(q, expectedState)
  \/ ExchangeCode
  \/ RevokeToken
  \/ \E response \in Responses : FetchResolves(response)
  \/ FetchFails
  \/ \E body \in Bodies : BodySettles(body)
  \/ TimeoutElapses
  \/ \E path \in RequestPaths, response \in Responses, body \in ErrorBodies \cup ProfileBodies :
       RequestAnswered(path, response, body)
  \/ \E path \in RequestPaths, cause \in {"TypeError", "TimeoutError"} :
       RequestFails(path, cause)

SpecOAuth == Init /\ [][NextOAuth]_vars

---------------------------------------------------------------------------
(* GaugidClient: construction, fromOAuthResponse, profile selection.  A    *)
(* DID is a text in which each ":" is a unit of its own.                   *)

\* /^did:a2p:(user|agent):([^:]+):(.+)$/.test(did)
didPattern_test(did) ==
  LET parts == split(did, ":") IN
  /\ Len(parts) >= 5
  /\ parts[1] = <<"did">>
  /\ parts[2] = <<"a2p">>
  /\ parts[3] \in {<<"user">>, <<"agent">>}
  /\ parts[4] # <<>>
  /\ Len(parts) > 5 \/ parts[5] # <<>>

\* validateGaugidDid: [isValid, error]
validateGaugidDid(did) ==
  IF ~didPattern_test(did)
    THEN <<FALSE, <<"Invalid DID format: ">> \o did>>
  ELSE IF Len(split(did, ":")) < 5 \/ split(did, ":")[4] = <<>>
    THEN <<FALSE, <<"Namespace is required in DID: ">> \o did>>
  ELSE <<TRUE, <<>>>>

\* sanitizeIdentifier, on the names in use
sanitizeIdentifier(name) ==
  CASE name = "default" -> "default"
    [] name = "My Agent" -> "my-agent"

\* generateAgentDid(name, namespace) with GAUGID_NAMESPACE = envNs; an
\* argument left out is ""
generateAgentDid(name, namespace, envNs) ==
  LET ns == IF namespace # "" THEN namespace ELSE envNs IN
  IF ns = "" THEN ErrorV("Error", <<"Namespace is required. Provide it as argument or set GAUGID_NAMESPACE environment variable.">>)
  ELSE TextV(<<"did", ":", "a2p", ":", "agent", ":", ns, ":", sanitizeIdentifier(name)>>)

\* the fields of a GaugidClient as the constructor leaves them
NewClient(connectionToken, agentDid, timeout) ==
  [t |-> "GaugidClient", made |-> TRUE, connectionToken |-> connectionToken,
   agentDid |-> agentDid,
   timeout |-> IF timeout * MsPerSecond # 0 THEN timeout * MsPerSecond ELSE DefaultTimeout,
   _userDid |-> UndefinedV, _availableProfiles |-> <<>>,
   _selectedProfileDid |-> UndefinedV]

\* new GaugidClient(config): the client, or the error thrown.  A member of
\* config left out is UndefinedV (agentDid), "" (namespace) or 0 (timeout)
GaugidClient_new(config, envNs) ==
  IF Truthy(config.agentDid)
    THEN IF ~validateGaugidDid(config.agentDid.chars)[1]
           THEN ErrorV("Error", <<"Invalid agent DID: ">> \o validateGaugidDid(config.agentDid.chars)[2])
         ELSE NewClient(config.connectionToken, config.agentDid, config.timeout)
  ELSE LET agentDid == generateAgentDid("default", config.namespace, envNs) IN
       IF IsThrow(agentDid) THEN agentDid
       ELSE NewClient(config.connectionToken, agentDid, config.timeout)

\* GaugidClient.fromOAuthResponse(oauthResponse, config); profiles left out
\* of the response is UndefinedV, else a list of profiles
fromOAuthResponse(oauthResponse, config, envNs) ==
  LET c == GaugidClient_new([connectionToken |-> oauthResponse.access_token,
                             agentDid |-> config.agentDid,
                             namespace |-> config.namespace,
                             timeout |-> config.timeout], envNs)
      profiles == IF oauthResponse.profiles = UndefinedV THEN <<>>
                  ELSE oauthResponse.profiles.l
  IN
  IF IsThrow(c) THEN c
  ELSE [c EXCEPT !._userDid = oauthResponse.user_did,
                 !._availableProfiles = profiles,
                 !._selectedProfileDid =
                    IF Len(profiles) = 1 /\ Truthy(profiles[1].did)
                      THEN profiles[1].did ELSE UndefinedV]

\* the availableDids of selectProfile, as a list
RECURSIVE profileDids(_)
profileDids(profiles) ==
  IF profiles = <<>> THEN <<>>
  ELSE (IF Truthy(profiles[1].did) THEN <<profiles[1].did>> ELSE <<>>)
         \o profileDids(Tail(profiles))

availableDids(c) ==
  profileDids(c._availableProfiles)
    \o (IF Truthy(c._userDid) THEN <<c._userDid>> ELSE <<>>)

includes(list, x) == \E i \in 1..Len(list) : list[i] = x

\* selectProfile without the check that the profile is available
selectProfile_anyValidDid(c, profileDid) ==
  IF ~validateGaugidDid(profileDid.chars)[1]
    THEN [client |-> c,
          val |-> ErrorV("Error", <<"Invalid profile DID: ">> \o validateGaugidDid(profileDid.chars)[2])]
  ELSE [client |-> [c EXCEPT !._selectedProfileDid = profileDid], val |-> VoidV]

\* selectProfile(profileDid): the client afterwards and what the call
\* returned or threw
selectProfile(c, profileDid) ==
  IF ~validateGaugidDid(profileDid.chars)[1]
    THEN [client |-> c,
          val |-> ErrorV("Error", <<"Invalid profile DID: ">> \o validateGaugidDid(profileDid.chars)[2])]
  ELSE IF ~includes(availableDids(c), profileDid)
    THEN [client |-> c,
          val |-> ErrorV("Error", <<"Profile ">> \o profileDid.chars \o <<" is not available.">>)]
  ELSE [client |-> [c EXCEPT !._selectedProfileDid = profileDid], val |-> VoidV]

\* getCurrentProfileDid()
getCurrentProfileDid(c) ==
  IF Truthy(c._selectedProfileDid) THEN c._selectedProfileDid ELSE c._userDid

\* the inputs
Alice == TextV(<<"did", ":", "a2p", ":", "user", ":", "gaugid", ":", "alice">>)
AliceWork == TextV(<<"did", ":", "a2p", ":", "user", ":", "gaugid", ":", "alice", ":", "work">>)
Bob == TextV(<<"did", ":", "a2p", ":", "user", ":", "local", ":", "bob">>)
NoNamespace == TextV(<<"did", ":", "a2p", ":", "user", ":", "alice">>)
EmptyNamespace == TextV(<<"did", ":", "a2p", ":", "user", ":", ":", "alice">>)
MyAgent == TextV(<<"did", ":", "a2p", ":", "agent", ":", "local", ":", "my-agent">>)
Dids == {Alice, AliceWork, Bob, NoNamespace, EmptyNamespace, TextV(<<>>)}

Envs == {Unset, "gaugid"}

Configs ==
  [connectionToken : {"gaugid_conn_xxx"},
   agentDid : {UndefinedV, MyAgent, NoNamespace},
   namespace : {"", "local"},
   timeout : {0, 5}]

Profile(did) == [did |-> did, type |-> "user"]

OAuthResponses ==
  [access_token : {"tok"},
   user_did : {UndefinedV, Alice, NoNamespace},
   profiles : {UndefinedV, ListV(<<>>), ListV(<<Profile(AliceWork)>>),
               ListV(<<Profile(UndefinedV)>>),
               ListV(<<Profile(AliceWork), Profile(Bob)>>)}]

\* new GaugidClient(config)
New(config) ==
  LET c == GaugidClient_new(config, env) IN
  /\ ret' = [op |-> "new", config |-> config, val |-> c]
  /\ client' = IF IsThrow(c) THEN client ELSE c
  /\ UNCHANGED <<env, file, now, last, kv, concVars, permVars, flowVars, logVars>>

\* GaugidClient.fromOAuthResponse(oauthResponse, config)
FromOAuthResponse(oauthResponse, config) ==
  LET c == fromOAuthResponse(oauthResponse, config, env) IN
  /\ ret' = [op |-> "fromOAuthResponse", config |-> config, val |-> c]
  /\ client' = IF IsThrow(c) THEN client ELSE c
  /\ UNCHANGED <<env, file, now, last, kv, concVars, permVars, flowVars, logVars>>

\* client.selectProfile(profileDid)
SelectProfile(profileDid) ==
  LET r == selectProfile(client, profileDid) IN
  /\ client.made
  /\ ret' = [op |-> "selectProfile", profileDid |-> profileDid, pre |-> client, val |-> r.val]
  /\ client' = r.client
  /\ UNCHANGED <<env, file, now, last, kv, concVars, permVars, flowVars, logVars>>

\* client.getCurrentProfileDid()
GetCurrentProfileDid ==
  /\ client.made
  /\ ret' = [op |-> "getCurrentProfileDid", val |-> getCurrentProfileDid(client)]
  /\ UNCHANGED <<env, client, file, now, last, kv, concVars, permVars, flowVars, logVars>>

\* the process starts with GAUGID_NAMESPACE set or not
InitClient ==
  /\ file = Missing
  /\ now = 0
  /\ last = Call("none", "", EmptyRec, NoPre, VoidV)
  /\ kv = [id \in Ids |-> Never]
  /\ whole = file
  /\ Quiet
  /\ fmode = NoMode
  /\ dmode = NoMode
  /\ FlowIdle
  /\ NoClientYet
  /\ env \in Envs
  /\ LoggingFresh

NextClient ==
  \/ \E config \in Configs : New(config)
  \/ \E oauthResponse \in OAuthResponses, config \in Configs :
       FromOAuthResponse(oauthResponse, config)
  \/ \E profileDid \in Dids : SelectProfile(profileDid)
  \/ GetCurrentProfileDid

SpecClient == InitClient /\ [][NextClient]_vars

---------------------------------------------------------------------------
(* The logger module: getLogger and setupLogging.                          *)

\* at most MaxObjects ConsoleLogger objects are made in a run
MaxObjects == 5

LogLevels == {"DEBUG", "INFO", "WARN", "ERROR"}
LOG_LEVELS == [DEBUG |-> 0, INFO |-> 1, WARN |-> 2, ERROR |-> 3]

\* new ConsoleLogger(name, level)
ConsoleLogger(name, level) == [name |-> name, level |-> level]

\* ConsoleLogger.shouldLog: whether the logger passes a message of this level
shouldLog(logger, level) == LOG_LEVELS[level] >= LOG_LEVELS[logger.level]

\* the name getLogger gives the logger of a module; "" is no name
loggerName(name) == IF name # "" THEN "gaugid." \o name ELSE "gaugid"

\* the modules that call getLogger when they are loaded, and a caller without
\* a name
LoggerNames == {"", "connection", "client"}

\* the place of a name in loggers.entries(), which lists the names in the
\* order of their first set
entryRank(name) ==
  Cardinality({m \in DOMAIN loggers : loggers[m] <= loggers[name]})

\* getLogger(name)
GetLogger(name) ==
  LET loggerName_ == loggerName(name)
      made == loggerName_ \notin DOMAIN loggers
  IN
  /\ made => Len(heap) < MaxObjects
  /\ heap' = IF made THEN Append(heap, ConsoleLogger(loggerName_, globalLogLevel))
             ELSE heap
  /\ loggers' = IF made THEN loggers @@ (loggerName_ :> Len(heap) + 1) ELSE loggers
  /\ held' = held \cup {loggers'[loggerName_]}
  /\ UNCHANGED <<globalLogLevel, file, now, last, kv, concVars, permVars, flowVars, clientVars>>

\* setupLogging(level)
SetupLogging(level) ==
  LET n == Cardinality(DOMAIN loggers) IN
  /\ Len(heap) + n <= MaxObjects
  /\ globalLogLevel' = level
  /\ heap' = [i \in 1..(Len(heap) + n) |->
                IF i <= Len(heap) THEN heap[i]
                ELSE ConsoleLogger(CHOOSE m \in DOMAIN loggers : entryRank(m) = i - Len(heap),
                                   level)]
  /\ loggers' = [m \in DOMAIN loggers |-> Len(heap) + entryRank(m)]
  /\ UNCHANGED <<held, file, now, last, kv, concVars, permVars, flowVars, clientVars>>

NextLog ==
  \/ \E name \in LoggerNames : GetLogger(name)
  \/ \E level \in LogLevels : SetupLogging(level)

SpecLog == Init /\ [][NextLog]_vars

---------------------------------------------------------------------------
(* What the claims speak of *)

\* the file holds a record under id
Stored(id) ==
  /\ file.kind = "json" /\ file.t = "object"
  /\ \E i \in 1..Len(file.entries) : file.entries[i].k = id

StoredRec(id) ==
  file.entries[CHOOSE i \in 1..Len(file.entries) : file.entries[i].k = id].v

\* record absent, no expiresAt, or the time in epoch seconds at or past it
ExpiredNow(id) ==
  \/ ~Stored(id)
  \/ "expiresAt" \notin DOMAIN StoredRec(id)
  \/ now \div 1000 >= StoredRec(id).expiresAt

\* what getToken is to return for a ConnectionTokenInfo passed to saveToken
Returned(info) ==
  [f \in (DOMAIN info \cap InfoFields) \cup {"scopes"} |->
     IF f \in DOMAIN info THEN info[f] ELSE <<>>]

\* how many times id occurs in a list of connection ids
Occurrences(l, id) == Cardinality({i \in 1..Len(l) : l[i] = id})

---------------------------------------------------------------------------
\* C1: getConnectionToken(id) returns null exactly when isTokenExpired(id)
\* would return true (record absent, no expiresAt, or now >= expiresAt), and
\* otherwise the token string of the record stored under id.
C1_NullIffExpired ==
  last.op = "getConnectionToken" =>
    /\ (last.val = NullV) <=> (isTokenExpired(file, now, last.id) = BoolV(TRUE))
    /\ (last.val = NullV) <=> ExpiredNow(last.id)
    /\ last.val # NullV => last.val = StrV(StoredRec(last.id).token)

\* getConnectionToken has returned null for a record that is stored and expired
C1_Witness ==
  /\ last.op = "getConnectionToken"
  /\ Stored(last.id)
  /\ "expiresAt" \in DOMAIN StoredRec(last.id)
  /\ now >= StoredRec(last.id).expiresAt * 1000
  /\ last.val = NullV

\* C2: isTokenExpired(id) is true if no record is stored under id, true if the
\* record has no expiresAt, true if the time in epoch seconds is at or past
\* expiresAt (the instant now = expiresAt included), and false otherwise.
C2_ExpiredCases ==
  last.op = "isTokenExpired" => last.val = BoolV(ExpiredNow(last.id))

\* isTokenExpired has returned true at the exact instant of expiry
C2_Witness ==
  /\ last.op = "isTokenExpired"
  /\ Stored(last.id)
  /\ "expiresAt" \in DOMAIN StoredRec(last.id)
  /\ now = StoredRec(last.id).expiresAt * 1000
  /\ last.val = BoolV(TRUE)

\* C3: for a connection saved with token T and expiresAt E, with the clock
\* only moving forward, getConnectionToken returns T at every time before E
\* and null at every time at or after E, until the connection is saved again
\* (kv[id] changes): no refresh brings the token back.
C3_TokenUntilExpiry ==
  \A id \in Ids :
    (kv[id].s = "saved" /\ "expiresAt" \in DOMAIN kv[id].info) =>
      getConnectionToken(file, now, id) =
        IF now < kv[id].info.expiresAt * 1000
          THEN StrV(kv[id].info.token) ELSE NullV

\* C4: saveToken(id, info) followed by getToken(id), with no other write in
\* between, returns token, expiresAt, scopes, connectionId, userDid and
\* profiles as passed (scopes [] when omitted) and no savedAt.
C4_SaveThenGet ==
  (last.op = "saveToken" /\ ~IsThrow(last.val)) =>
    getToken(file, last.id) = RecV(Returned(last.info))

\* C5: a saveToken for an id that an earlier saveToken wrote replaces the
\* record: getToken(id) returns the second call's values and listConnections
\* contains id exactly once.
C5_Overwrite ==
  (last.op = "saveToken" /\ ~IsThrow(last.val) /\ last.pre.s = "saved") =>
    /\ getToken(file, last.id) = RecV(Returned(last.info))
    /\ listConnections(file).t = "list"
    /\ Occurrences(listConnections(file).l, last.id) = 1

\* C6: after deleteToken(id), and until a later saveToken for id, getToken(id)
\* returns null, listConnections does not contain id and
\* getConnectionToken(id) returns null.
C6_DeletedIsGone ==
  \A id \in Ids :
    kv[id] = Deleted =>
      /\ getToken(file, id) = NullV
      /\ listConnections(file).t = "list"
      /\ Occurrences(listConnections(file).l, id) = 0
      /\ getConnectionToken(file, now, id) = NullV

\* C7: from an empty store, after any sequence of saveToken and deleteToken
\* calls, listConnections is exactly the set of ids saved and not deleted
\* afterwards, and getToken on each gives the value saved last.
C7_KeyValueMap ==
  /\ listConnections(file).t = "list"
  /\ {listConnections(file).l[i] : i \in 1..Len(listConnections(file).l)}
       = {id \in Ids : kv[id].s = "saved"}
  /\ \A id \in Ids :
       kv[id].s = "saved" => getToken(file, id) = RecV(Returned(kv[id].info))

\* C8: deleteToken(id) for an id that is not stored completes without error
\* and leaves the stored ids and records as they were; a second deleteToken
\* changes nothing more.
C8_DeleteAbsent ==
  [][ /\ \A id \in Ids :
           (last'.op = "deleteToken" /\ last'.id = id /\ ~Stored(id)) =>
             /\ last'.val = VoidV
             /\ loadTokens(file').own = loadTokens(file).own
      /\ \A id \in Ids :
           deleteToken(deleteToken(file, id).file, id) = deleteToken(file, id)
    ]_vars

\* deleteToken has completed for an id never saved, with another id stored
C8_Witness ==
  /\ last.op = "deleteToken"
  /\ last.pre = Never
  /\ last.id # ProtoKey
  /\ last.val = VoidV
  /\ Len(file.entries) > 0

\* C9: whatever the token file holds (missing, unreadable, or content that is
\* not a JSON map of records), getToken, listConnections, isTokenExpired and
\* getConnectionToken do not throw and answer as on an empty store.
C9_ReadsDegradeToEmpty ==
  ( /\ last.op \in {"getToken", "listConnections", "isTokenExpired", "getConnectionToken"}
    /\ ~(file.kind = "json" /\ file.t = "object") ) =>
      /\ ~IsThrow(last.val)
      /\ last.op = "getToken" => last.val = getToken(Missing, last.id)
      /\ last.op = "listConnections" => last.val = ListV(<<>>)
      /\ last.op = "isTokenExpired" => last.val = BoolV(TRUE)
      /\ last.op = "getConnectionToken" => last.val = NullV

\* C10: saveToken rewrites the token file atomically: a reader running while
\* a write is in progress (getToken, or the read step of another saveToken or
\* deleteToken) gets the complete old map or the complete new map, never an
\* empty or partly written file.
C10_AtomicRewrite == \A p \in Procs : ~torn[p]

\* C11: when saveToken and deleteToken calls overlap, each write leaves in
\* the file exactly the map its call computed (the snapshot it read plus its
\* own change), so the file ends as the map of the call that wrote last.
C11_LastWriterWins ==
  [][ \A p \in Procs :
        (pc[p] = "write" /\ pc'[p] = "idle") => file' = JSONstringify(snap[p])
    ]_vars

\* C12: after every successful saveToken or deleteToken the token file has
\* mode 0600 (owner read/write only), whether or not it existed before with
\* other permissions, and a directory the store created has mode 0700.
C12_OwnerOnly ==
  [][ (last'.op \in {"saveToken", "deleteToken"} /\ ~IsThrow(last'.val)) =>
        /\ fmode' = FileMode
        /\ dmode = NoMode => dmode' = DirMode
    ]_vars

\* the value is a thrown GaugidAuthError
IsAuthError(v) == v.t = "throw" /\ v.e = "GaugidAuthError"

\* the OAuth error message for the error and error_description a query carries
OAuthErrorMessage(q) ==
  <<"OAuth error: ">> \o q.error \o <<" - ">>
    \o (IF "error_description" \in DOMAIN q THEN q.error_description ELSE <<>>)

\* C13 as stated: for a redirect URL carrying code=C and state=S and no error
\* parameter, parseAuthorizationResponse(url, expectedState) returns exactly C
\* when expectedState = S and fails with an authentication error for every
\* other expectedState and when the URL carries no state; it fails with an
\* authentication error when code is absent.
C13_CodeIffState ==
  (flow.op = "parseAuthorizationResponse" /\ "error" \notin DOMAIN flow.q) =>
    /\ "code" \notin DOMAIN flow.q => IsAuthError(flow.val)
    /\ "code" \in DOMAIN flow.q =>
         IF "state" \in DOMAIN flow.q /\ flow.q.state = flow.expectedState
           THEN flow.val = TextV(flow.q.code)
           ELSE IsAuthError(flow.val)

\* C13 amended: the same for a non-empty C; a code parameter with an empty
\* value is treated as an absent one (authentication error).
C13_NonEmptyCodeIffState ==
  (flow.op = "parseAuthorizationResponse" /\ "error" \notin DOMAIN flow.q) =>
    /\ ("code" \notin DOMAIN flow.q \/ flow.q.code = <<>>) =>
         IsAuthError(flow.val)
    /\ ("code" \in DOMAIN flow.q /\ flow.q.code # <<>>) =>
         IF "state" \in DOMAIN flow.q /\ flow.q.state = flow.expectedState
           THEN flow.val = TextV(flow.q.code)
           ELSE IsAuthError(flow.val)

\* the code, with characters that the URL escapes, has been returned for a
\* matching state
C13_Witness ==
  /\ flow.op = "parseAuthorizationResponse"
  /\ DOMAIN flow.q = {"state", "code"}
  /\ flow.q.code = <<"c", "+", "&", "1">>
  /\ flow.q.state = <<"s", "=", "2">>
  /\ flow.expectedState = flow.q.state
  /\ flow.val = TextV(flow.q.code)

\* C14 as stated: whenever the redirect URL contains an error parameter,
\* parseAuthorizationResponse fails with an authentication error whose message
\* holds the error and error_description values, whatever state and code are:
\* no code is returned from a URL that carries an error parameter.
C14_ErrorFirst ==
  (flow.op = "parseAuthorizationResponse" /\ "error" \in DOMAIN flow.q) =>
    flow.val = GaugidAuthError(OAuthErrorMessage(flow.q))

\* C14 amended: the same whenever the URL contains an error parameter with a
\* non-empty value; an error parameter with an empty value is ignored.
C14_NonEmptyErrorFirst ==
  /\ ( /\ flow.op = "parseAuthorizationResponse"
       /\ "error" \in DOMAIN flow.q
       /\ flow.q.error # <<>> ) =>
        flow.val = GaugidAuthError(OAuthErrorMessage(flow.q))
  /\ ( /\ flow.op = "parseAuthorizationResponse"
       /\ "error" \in DOMAIN flow.q
       /\ flow.q.error = <<>> ) =>
        flow.val =
          parseAuthorizationResponse(
            RedirectUrl([n \in DOMAIN flow.q \ {"error"} |-> flow.q[n]]),
            flow.expectedState)

\* the OAuth error has been raised for a URL whose state matches and that
\* carries a code
C14_Witness ==
  /\ flow.op = "parseAuthorizationResponse"
  /\ DOMAIN flow.q = {"error", "error_description", "state", "code"}
  /\ flow.q.error = <<"access_denied">>
  /\ flow.q.state = flow.expectedState
  /\ flow.q.code = <<"c1">>
  /\ flow.val =
       GaugidAuthError(<<"OAuth error: ", "access_denied", " - ", "user", " ", "denied">>)

\* C15 as stated: getAuthorizationUrl returns {authUrl, state} where the scope
\* parameter of authUrl is scopes.join(",") and its state parameter is the
\* returned state; a state the caller supplies is returned as it is, and when
\* none is supplied the returned state is non-empty and differs from the ones
\* returned by earlier calls.
C15_AuthorizationUrl ==
  [][ flow'.op = "getAuthorizationUrl" =>
        LET params == searchParams(flow'.val.authUrl.query) IN
        /\ get(params, "scope") = TextV(join(flow'.scopes))
        /\ get(params, "state") = flow'.val.state
        /\ flow'.state # UndefinedV => flow'.val.state = flow'.state
        /\ flow'.state = UndefinedV =>
             /\ flow'.val.state.chars # <<>>
             /\ \A i \in 1..Len(drawn) : drawn[i] # flow'.val.state.chars
    ]_vars

\* C15 amended: a non-empty state the caller supplies is returned as it is;
\* when none is supplied, or an empty one, the returned state is non-empty and
\* differs from the ones returned by earlier calls.
C15_NonEmptyStateKept ==
  [][ flow'.op = "getAuthorizationUrl" =>
        LET params == searchParams(flow'.val.authUrl.query) IN
        /\ get(params, "scope") = TextV(join(flow'.scopes))
        /\ get(params, "state") = flow'.val.state
        /\ Truthy(flow'.state) => flow'.val.state = flow'.state
        /\ ~Truthy(flow'.state) =>
             /\ flow'.val.state.chars # <<>>
             /\ \A i \in 1..Len(drawn) : drawn[i] # flow'.val.state.chars
    ]_vars

\* a second state has been generated, for scopes that hold "&", " " and ","
C15_Witness ==
  /\ flow.op = "getAuthorizationUrl"
  /\ flow.state = UndefinedV
  /\ flow.scopes = << <<"a", "&", "b", " ", "c">>, <<"x", ",", "y">> >>
  /\ Len(drawn) = 2
  /\ flow.val.state = TextV(drawn[2])

\* an exchangeCode or revokeToken call has completed
Done(op) == flow.op = op /\ flow.pc = "done"

\* C16: when the token endpoint answers 401, exchangeCode fails with an
\* authentication error with the message "Invalid client credentials",
\* whatever the body of the response is.
C16_InvalidCredentials ==
  (Done("exchangeCode") /\ flow.response.status = 401) =>
    /\ flow.val = GaugidAuthError(<<"Invalid client credentials">>)
    /\ \A body \in Bodies : exchangeCode(flow.response, body) = flow.val

\* exchangeCode has failed on a 401
C16_Witness ==
  /\ Done("exchangeCode")
  /\ flow.response.status = 401
  /\ IsAuthError(flow.val)

\* the error message a body carries: error.message, or error when it is a
\* string; the empty sequence when it carries none
ServerMessage(body) ==
  IF body.t # "object" \/ "error" \notin DOMAIN body.fields THEN <<>>
  ELSE LET error == body.fields.error IN
       IF error.t = "string" /\ error.s # "" THEN <<error.s>>
       ELSE IF /\ error.t = "object"
               /\ "message" \in DOMAIN error.fields
               /\ error.fields.message.t = "string"
               /\ error.fields.message.s # ""
         THEN <<error.fields.message.s>>
       ELSE <<>>

\* C17: when the token endpoint answers 400, exchangeCode fails with an
\* authentication error, never an API or connection error; its message is the
\* server's error message when the body parses and carries one, and "Token
\* exchange failed" otherwise, a body that is not JSON included.
C17_BadRequestIsAuthError ==
  (Done("exchangeCode") /\ flow.response.status = 400) =>
    /\ Kind(flow.val) = "GaugidAuthError"
    /\ flow.val.message =
         IF ServerMessage(flow.body) # <<>> THEN ServerMessage(flow.body)
         ELSE <<"Token exchange failed">>

\* exchangeCode has failed on a 400 whose body is not JSON
C17_Witness ==
  /\ Done("exchangeCode")
  /\ flow.response.status = 400
  /\ flow.body = JsonRejects
  /\ flow.val = GaugidAuthError(<<"Token exchange failed">>)

\* the body has the OAuthTokenResponse shape
MatchesShape(body) ==
  /\ body.t = "object"
  /\ \A name \in {"access_token", "scope"} :
       name \in DOMAIN body.fields /\ body.fields[name].t = "string"
  /\ "expires_in" \in DOMAIN body.fields /\ body.fields.expires_in.t = "number"
  /\ \A name \in {"token_type", "connection_id", "user_did"} :
       name \in DOMAIN body.fields => body.fields[name].t = "string"

\* C18: when the token endpoint answers 2xx with a JSON body that does not
\* match the OAuthTokenResponse shape, exchangeCode fails with a connection
\* error and returns no token response; on a matching body it returns the
\* members the body gives, with token_type "Bearer" when the body has none.
C18_ValidatedTokenResponse ==
  (Done("exchangeCode") /\ ok(flow.response.status) /\ flow.body # JsonRejects) =>
    IF MatchesShape(flow.body)
      THEN /\ flow.val.t = "object"
           /\ \A name \in DOMAIN flow.val.fields :
                flow.val.fields[name] =
                  IF name \in DOMAIN flow.body.fields THEN flow.body.fields[name]
                  ELSE JStr("Bearer")
           /\ {"access_token", "token_type", "expires_in", "scope"}
                \subseteq DOMAIN flow.val.fields
           /\ \A name \in {"connection_id", "user_did"} :
                name \in DOMAIN flow.body.fields => name \in DOMAIN flow.val.fields
      ELSE Kind(flow.val) = "GaugidConnectionError"

\* exchangeCode has returned a token response whose token_type was defaulted
C18_Witness ==
  /\ Done("exchangeCode")
  /\ flow.response.status = 200
  /\ MatchesShape(flow.body)
  /\ "token_type" \notin DOMAIN flow.body.fields
  /\ flow.val.t = "object"
  /\ flow.val.fields.token_type = JStr("Bearer")

\* C19 as stated: for every response status and error body, and for network
\* failure or timeout, revokeToken raises the kind of error that exchangeCode
\* raises for that response, and it succeeds on any 2xx without reading a
\* body.
C19_SameErrorMapping ==
  Done("revokeToken") =>
    IF flow.response = NoResponse
      THEN Kind(flow.val) = "GaugidConnectionError"
    ELSE IF ok(flow.response.status)
      THEN flow.val = VoidV /\ flow.body = Unread
    ELSE Kind(flow.val) = Kind(exchangeCode(flow.response, flow.body))

\* C19 amended: the same for every status but 400; for a 400, where
\* exchangeCode always raises an authentication error, revokeToken raises
\* what parseGaugidError gives: an authentication error for the codes
\* A2P001, A2P019, A2P020 and A2P021, an API error otherwise.
C19_SameErrorMappingBut400 ==
  Done("revokeToken") =>
    IF flow.response = NoResponse
      THEN Kind(flow.val) = "GaugidConnectionError"
    ELSE IF ok(flow.response.status)
      THEN flow.val = VoidV /\ flow.body = Unread
    ELSE IF flow.response.status = 400
      THEN /\ Kind(exchangeCode(flow.response, flow.body)) = "GaugidAuthError"
           /\ Kind(flow.val) =
                IF /\ flow.body.t = "object"
                   /\ Member(flow.body, "error").t = "object"
                   /\ Member(Member(flow.body, "error"), "code").t = "string"
                   /\ Member(Member(flow.body, "error"), "code").s \in AuthCodes
                  THEN "GaugidAuthError" ELSE "GaugidAPIError"
    ELSE Kind(flow.val) = Kind(exchangeCode(flow.response, flow.body))

\* revokeToken has raised an API error on a 500 whose body carries a code
C19_Witness ==
  /\ Done("revokeToken")
  /\ flow.response.status = 500
  /\ flow.body = JObj([error |-> JObj([code |-> JStr("A2P017"), message |-> JStr("Bad code")])])
  /\ Kind(flow.val) = "GaugidAPIError"

\* C20: when the configured timeout elapses on an exchangeCode or revokeToken
\* call that has not completed (the server has not finished sending headers
\* and body), the request is cancelled and the call fails with a connection
\* error: no call is still pending after its timeout.
C20_TimeoutEndsCall ==
  [][ ( /\ flow.op \in NetOps /\ flow.pc # "done" /\ ~flow.elapsed
        /\ flow'.op = flow.op /\ flow'.elapsed ) =>
        /\ flow'.pc = "done"
        /\ Kind(flow'.val) = "GaugidConnectionError"
    ]_vars

\* C21: a call of exchangeCode or revokeToken sends at most one HTTP request,
\* whatever its outcome (success, error status, network failure, timeout):
\* nothing is retried.
C21_OneRequest ==
  flow.op \in NetOps =>
    /\ flow.sent <= 1
    /\ flow.pc = "done" => flow.sent = 1

\* a call has ended on a timeout after a single request
C21_Witness ==
  /\ flow.op \in NetOps
  /\ flow.pc = "done"
  /\ flow.elapsed
  /\ flow.val = fetchRejects("AbortError")
  /\ flow.sent = 1

\* a call has ended with what parseGaugidError made of the response: the
\* status is neither 2xx nor one the call handles itself, and the body was read
Parsed ==
  /\ flow.op \in NetOps /\ flow.pc = "done"
  /\ flow.response # NoResponse
  /\ ~ok(flow.response.status)
  /\ flow.response.status # 401
  /\ flow.op = "exchangeCode" => flow.response.status # 400

\* the protocol code of an error body: error.code, undefined if there is none
CodeOf(body) == Member(Member(body, "error"), "code")

\* the message before any description is appended: error.message, else the
\* status text, else "Unknown error"
BaseMessage(response, body) ==
  IF ServerMessage(body) # <<>> /\ Member(body, "error").t = "object"
    THEN ServerMessage(body)
  ELSE IF response.statusText # "" THEN <<response.statusText>>
  ELSE <<"Unknown error">>

\* C22: parseGaugidError classifies by protocol code: A2P001, A2P019, A2P020
\* and A2P021 give an authentication error carrying the code; any other code,
\* or none, gives an API error carrying the code and the HTTP status.  The
\* description of a code of the table is appended to the message, unless the
\* message holds it already; for a code that is no name at all in the table
\* nothing is appended.
C22_ClassifiedByCode ==
  Parsed =>
    LET code == CodeOf(flow.body)
        base == BaseMessage(flow.response, flow.body)
    IN /\ flow.val = parseGaugidError(flow.response,
                       IF flow.body = JsonRejects THEN JObj(EmptyRec) ELSE flow.body)
       /\ IF code.t = "string" /\ code.s \in AuthCodes
            THEN Kind(flow.val) = "GaugidAuthError"
            ELSE /\ Kind(flow.val) = "GaugidAPIError"
                 /\ flow.val.statusCode = flow.response.status
       /\ flow.val.code = code
       /\ (code.t = "string" /\ code.s \in DOMAIN ERROR_CODES) =>
            flow.val.message =
              IF \E i \in 1..Len(base) : base[i] = ERROR_CODES[code.s] THEN base
              ELSE base \o <<" (", ERROR_CODES[code.s], ")">>
       /\ (code.t # "string" \/
            (code.s \notin DOMAIN ERROR_CODES /\ code.s # "constructor")) =>
            flow.val.message = base

\* an authentication error has been made for A2P001 whose message is already
\* the description of the code
C22_Witness ==
  /\ Parsed
  /\ CodeOf(flow.body) = JStr("A2P001")
  /\ flow.val = GaugidAuthErrorWithCode(<<"Not authorized">>, JStr("A2P001"))

\* the response carries one of the four auth codes in an error body that
\* parseGaugidError gets to see
CarriesAuthCode ==
  /\ flow.op \in NetOps \cup RequestPaths /\ flow.pc = "done"
  /\ flow.response # NoResponse
  /\ flow.body # Unread
  /\ CodeOf(flow.body).t = "string" /\ CodeOf(flow.body).s \in AuthCodes
  /\ flow.op \in NetOps => Parsed
  /\ flow.op \in {"GaugidStorage.get", "GaugidStorage.set", "GaugidStorage.proposeMemory"} =>
       ~ok(flow.response.status)
  /\ flow.op = "GaugidStorage.get" => flow.response.status # 404

\* C23: an error response carrying an auth code (A2P001, A2P019, A2P020,
\* A2P021) reaches the caller as an authentication error on every request path
\* that uses parseGaugidError (OAuthFlow, GaugidStorage, GaugidClient); it is
\* never turned into a connection error or another kind.
C23_AuthCodeReachesCaller ==
  CarriesAuthCode => Kind(flow.val) = "GaugidAuthError"

\* C24: constructing a GaugidClient with only a connectionToken (no agentDid,
\* no namespace) succeeds and yields a usable client in every environment,
\* also when GAUGID_NAMESPACE is not set.
C24_TokenOnlyConstructs ==
  (/\ ret.op = "new"
   /\ ret.config.agentDid = UndefinedV
   /\ ret.config.namespace = "") =>
    /\ ~IsThrow(ret.val)
    /\ client = ret.val

\* the record stored under id carries an expiresAt that has passed
PastExpiry(id) ==
  /\ Stored(id)
  /\ "expiresAt" \in DOMAIN StoredRec(id)
  /\ now \div MsPerSecond >= StoredRec(id).expiresAt

\* C25: ConnectionManager.saveConnection, deleteConnection, listConnections
\* and getConnectionInfo return and do exactly what TokenStorage.saveToken,
\* deleteToken, listConnections and getToken do in every store state;
\* getConnectionInfo and listConnections apply no expiry filter, so an expired
\* record is still returned and listed.
C25_PassThrough ==
  /\ last.op = "saveConnection" =>
       /\ file = saveToken(last.before, last.id, last.info, now).file
       /\ last.val = saveToken(last.before, last.id, last.info, now).val
  /\ last.op = "deleteConnection" =>
       /\ file = deleteToken(last.before, last.id).file
       /\ last.val = deleteToken(last.before, last.id).val
  /\ last.op = "ConnectionManager.listConnections" =>
       /\ file = last.before
       /\ last.val = listConnections(file)
       /\ \A id \in Ids : PastExpiry(id) => Occurrences(last.val.l, id) = 1
  /\ last.op = "getConnectionInfo" =>
       /\ file = last.before
       /\ last.val = getToken(file, last.id)
       /\ PastExpiry(last.id) => last.val = RecV(TokenInfoOf(StoredRec(last.id)))

\* getConnectionInfo has returned a record whose expiresAt has passed
C25_Witness ==
  /\ last.op = "getConnectionInfo"
  /\ PastExpiry(last.id)
  /\ last.val = RecV(TokenInfoOf(StoredRec(last.id)))
  /\ isTokenExpired(file, now, last.id) = BoolV(TRUE)

\* C26: getConnectionToken never returns a token whose own record is expired,
\* also when a saveConnection or deleteConnection for the same id runs between
\* its getToken read and its isTokenExpired read: the token returned and the
\* expiry that was checked belong to the same stored record.
C26_TokenOfCheckedRecord ==
  (/\ last.op = "getConnectionToken"
   /\ "checked" \in DOMAIN last
   /\ last.val.t = "string") =>
    /\ last.checked = last.tokenInfo
    /\ "expiresAt" \in DOMAIN last.tokenInfo.r
    /\ now < last.tokenInfo.r.expiresAt * MsPerSecond

\* C27: saveToken(A, info) and deleteToken(A) change only the entry of A: for
\* every other connectionId B the record stored in the file for B, savedAt
\* included, is the same before and after the call, in every starting state of
\* the file.
C27_OthersUntouched ==
  [][last'.op \in {"saveToken", "deleteToken"} =>
       \A B \in Ids \ {last'.id} :
         /\ Stored(B)' <=> Stored(B)
         /\ Stored(B) => StoredRec(B)' = StoredRec(B)]_vars

\* a save has just written svc1 next to a record of svc2 that was saved at
\* an earlier time and still carries that time
C27_Witness ==
  /\ last.op = "saveToken" /\ last.id = "svc1" /\ ~IsThrow(last.val)
  /\ Stored("svc2")
  /\ StoredRec("svc1").savedAt = toISOString(now)
  /\ StoredRec("svc2").savedAt # toISOString(now)

ReadOps ==
  {"getToken", "listConnections", "isTokenExpired", "getConnectionToken",
   "getConnectionInfo", "ConnectionManager.listConnections"}

\* the call that ends the step is a write of id
WriteOf(id) ==
  /\ last'.op \in {"saveToken", "deleteToken", "saveConnection", "deleteConnection"}
  /\ last'.id = id

\* C28: the read operations getToken, listConnections, isTokenExpired,
\* getConnectionToken and getConnectionInfo never write the token file: the
\* stored map is unchanged by any of them, and an expired record stays stored
\* (and listed) until deleteToken or a new saveToken for its id.
C28_ReadsDoNotWrite ==
  [][/\ last'.op \in ReadOps => file' = file
     /\ \A id \in Ids :
          (PastExpiry(id) /\ ~WriteOf(id)) =>
            /\ Stored(id)'
            /\ StoredRec(id)' = StoredRec(id)
            /\ Occurrences(listConnections(file').l, id) = 1]_vars

\* an expired record is in the file, and is listed, after a getConnectionToken
\* that returned null for it
C28_Witness ==
  /\ last.op = "getConnectionToken" /\ last.val = NullV
  /\ PastExpiry(last.id)
  /\ Occurrences(listConnections(file).l, last.id) = 1

\* the DIDs a selection may come from: those of the profiles received from the
\* OAuth response, and the user DID
SelectableDids(c) ==
  {c._availableProfiles[i].did : i \in 1..Len(c._availableProfiles)} \cup {c._userDid}

\* C29: in every reachable state of a GaugidClient the selected profile DID is
\* unset or one of the DIDs of the profiles received from the OAuth response or
\* the user DID; selectProfile(d) sets the selection only when d is a valid DID
\* in that set, a failing selectProfile leaves the previous selection
\* unchanged, and getCurrentProfileDid returns the selection when set and the
\* user DID otherwise.
C29_SelectionIsAvailable ==
  client.made =>
    /\ \/ client._selectedProfileDid = UndefinedV
       \/ client._selectedProfileDid \in SelectableDids(client)
    /\ ret.op = "selectProfile" =>
         /\ ~IsThrow(ret.val) =>
              /\ client._selectedProfileDid = ret.profileDid
              /\ validateGaugidDid(ret.profileDid.chars)[1]
              /\ ret.profileDid \in SelectableDids(ret.pre)
         /\ IsThrow(ret.val) => client = ret.pre
         /\ client._selectedProfileDid # ret.pre._selectedProfileDid => ~IsThrow(ret.val)
    /\ ret.op = "getCurrentProfileDid" =>
         ret.val = IF client._selectedProfileDid # UndefinedV
                     THEN client._selectedProfileDid ELSE client._userDid

\* a second profile was selected in place of the one chosen before, a
\* selection of an unavailable DID failed and left it, and it is what
\* getCurrentProfileDid returns
C29_Witness ==
  /\ client.made
  /\ client._selectedProfileDid = Bob
  /\ client._userDid = Alice
  /\ ret.op = "getCurrentProfileDid"
  /\ ret.val = Bob

\* C30: setupLogging(level) updates all existing loggers: after the call every
\* logger object previously returned by getLogger filters messages at the new
\* level, and every logger obtained afterwards does too.
C30_HeldLoggersFollowLevel ==
  \A i \in held : \A level \in LogLevels :
    shouldLog(heap[i], level) <=> LOG_LEVELS[level] >= LOG_LEVELS[globalLogLevel]

====
